---- MODULE Spec2Model ----
(***************************************************************************)
(* Model of the CSI snapshot exposer (pkg/exposer/csi_snapshot.go).        *)
(*                                                                         *)
(* The object store is the only state the exposer has: volume snapshots,   *)
(* volume snapshot contents, persistent volume claims and pods, keyed by   *)
(* name.  Every exposer call (Expose, GetExposed, PeekExposed, CleanUp) is *)
(* a sequence of store calls; each store call is one action, so calls of   *)
(* different owners interleave at store-call granularity.  A store call in *)
(* the main flow of a handler may fail (conflict, timeout, connectivity).  *)
(***************************************************************************)
EXTENDS Integers, Sequences, FiniteSets, TLC

\* ------------------------------------------------------------------ bounds

\* Number of exposer calls made in one behaviour.
MaxCalls == 3

\* Number of times the external snapshot step re-creates a source snapshot.
MaxRetakes == 1

\* ------------------------------------------------------------ name spaces

AllOwners == {"o1", "o2"}

\* ownerObject.UID of each owner object.
UIDOf(o) == IF o = "o1" THEN "uid-1" ELSE "uid-2"

\* CSISnapshotExposeParam.SnapshotName of the exposure of owner o.
SnapshotNameOf(o) == IF o = "o1" THEN "snap-1" ELSE "snap-2"

\* Name of the content object bound to the source snapshot of owner o.
ContentNameOf(o) == IF o = "o1" THEN "snapcontent-1" ELSE "snapcontent-2"

SnapshotNames == AllOwners \cup {SnapshotNameOf(o) : o \in AllOwners}
ContentNames == AllOwners \cup {ContentNameOf(o) : o \in AllOwners}

\* An absent object; every stored object is a record with a kind field.
NoObj == [kind |-> "none"]
Exists(x) == x.kind # "none"

\* The nil error.
NilErr == ""

\* ----------------------------------------------------- program constants

AccessModeFileSystem == "by-file-system"
AccessModeBlock == "by-block-device"

PersistentVolumeFilesystem == "Filesystem"
PersistentVolumeBlock == "Block"

ReadWriteOnce == "ReadWriteOnce"
ReadOnlyMany == "ReadOnlyMany"

VolumeSnapshotContentDelete == "Delete"
VolumeSnapshotContentRetain == "Retain"

NodeOSWindows == "windows"
NodeOSLinux == "linux"

\* ------------------------------------------------------------ input sets

\* nodeagent.BackupPVC entries of the remap table.
BackupPVCEntries ==
    [StorageClass : {"", "sc-remap"}, ReadOnly : BOOLEAN, SPCNoRelabeling : BOOLEAN]

\* The storage class of the source volume.
SourceStorageClass == "sc-src"

\* Remap tables: empty, one entry for the source storage class, or one entry
\* for another storage class.  A table is a set of <<key, entry>> pairs.
BackupPVCConfigs ==
    {{}} \cup {{<<SourceStorageClass, e>>} : e \in BackupPVCEntries}
         \cup {{<<"sc-other", [StorageClass |-> "sc-remap", ReadOnly |-> TRUE,
                               SPCNoRelabeling |-> TRUE]>>}}

\* Status.RestoreSize of a source snapshot: a pointer, modelled as a sequence
\* that is empty when the pointer is nil and holds the quantity otherwise.
RestoreSizes == {<<>>, <<0>>, <<12>>}

ParamSet ==
    [AccessMode : {AccessModeFileSystem, AccessModeBlock, "by-other"},
     StorageClass : {SourceStorageClass},
     VolumeSize : {10},
     BackupPVCConfig : BackupPVCConfigs,
     NodeOS : {NodeOSLinux, NodeOSWindows, ""},
     OperationTimeout : {"4m0s"}]

\* ------------------------------------------------------------------ state

VARIABLES
    owners,     \* the owner objects for which the caller runs exposures
    param,      \* param[o]: the CSISnapshotExposeParam of owner o
    vs,         \* vs[n]: the VolumeSnapshot named n, or NoObj
    vsc,        \* vsc[n]: the VolumeSnapshotContent named n, or NoObj
    pvc,        \* pvc[n]: the PersistentVolumeClaim named n, or NoObj
    pod,        \* pod[n]: the Pod named n, or NoObj
    pc,         \* pc[o]: position of the call in flight for owner o
    loc,        \* loc[o]: local variables of the call in flight
    calls,      \* calls[o]: store calls issued by the current/last call
    last,       \* last[o]: operation and result of the last finished call
    prevStore,  \* prevStore[o]: store at the end of the first of a run of
                \* consecutive CleanUp calls of owner o
    consec,     \* consec[o]: length of that run
    ncalls,     \* ncalls[o]: number of exposer calls started for owner o
    retakes,    \* number of source snapshots re-created
    ctxDone,    \* ctxDone[o]: the deadline of the context of the call in
                \* flight (or of the last call) of owner o has expired
    requests,   \* the DeleteBackupRequests held by the fake client, in the
                \* order of its list
    listed      \* the outcome of the last call of the fake client, if a List

vars == <<owners, param, vs, vsc, pvc, pod, pc, loc, calls, last,
          prevStore, consec, ncalls, retakes, ctxDone, requests, listed>>

\* ---------------------------------------------------------------- objects

\* A source VolumeSnapshot as the external snapshot step creates it.
SourceVS(o, size) ==
    [kind |-> "vs", name |-> SnapshotNameOf(o), ready |-> FALSE,
     restoreSize |-> size, bound |-> ContentNameOf(o), sourceContent |-> "",
     ownerRefs |-> {}]

\* The VolumeSnapshotContent bound to it; gen tells re-created snapshots apart.
SourceVSC(o, gen) ==
    [kind |-> "vsc", name |-> ContentNameOf(o),
     policy |-> VolumeSnapshotContentDelete, driver |-> "csi.example.com",
     handle |-> <<ContentNameOf(o), gen>>, snapshotRef |-> SnapshotNameOf(o)]

\* The owner reference put on claims and pods.
OwnerReference(o) ==
    [APIVersion |-> "velero.io/v2alpha1", Kind |-> "DataUpload", Name |-> o,
     UID |-> UIDOf(o), Controller |-> TRUE]

\* What DiagnoseExpose has read so far: the three objects (NoObj for nil)
\* and the outcome of each call made ("none" for a call not made).
EmptyDiag ==
    [pod |-> NoObj, pvc |-> NoObj, vs |-> NoObj, gp |-> "none", gc |-> "none",
     gs |-> "none", na |-> "none", gv |-> "none", gb |-> "none"]

EmptyLoc ==
    [volumeSnapshot |-> NoObj, vsc |-> NoObj, backupVS |-> NoObj,
     backupVSC |-> NoObj, backupPVC |-> NoObj, pod |-> NoObj,
     err |-> NilErr, defers |-> <<>>, diag |-> EmptyDiag]

NoResult == [op |-> "none", err |-> NilErr, result |-> NoObj]

\* One store call of the log: the operation, the object name, and its outcome
\* ("ok", "notFound" or "error").
Call(op, target, outcome) == [op |-> op, target |-> target, outcome |-> outcome]

\* --------------------------------------------- pure functions of the code

\* Mutant of getVolumeModeByAccessMode: an unknown access mode falls back to
\* the filesystem mode.
getVolumeModeByAccessMode_Fallback(accessMode) ==
    CASE accessMode = AccessModeBlock ->
            [mode |-> PersistentVolumeBlock, err |-> NilErr]
      [] OTHER -> [mode |-> PersistentVolumeFilesystem, err |-> NilErr]

\* getVolumeModeByAccessMode: the volume mode and the error.
getVolumeModeByAccessMode(accessMode) ==
    CASE accessMode = AccessModeFileSystem ->
            [mode |-> PersistentVolumeFilesystem, err |-> NilErr]
      [] accessMode = AccessModeBlock ->
            [mode |-> PersistentVolumeBlock, err |-> NilErr]
      [] OTHER -> [mode |-> "", err |-> "unsupported access mode"]

\* Expose, `value, exists := csiExposeParam.BackupPVCConfig[StorageClass]`.
ConfigExists(p) == \E e \in p.BackupPVCConfig : e[1] = p.StorageClass
ConfigValue(p) == (CHOOSE e \in p.BackupPVCConfig : e[1] = p.StorageClass)[2]

\* Mutant of VolumeSizeOf: the zero check of the restore size is missing.
VolumeSizeOf_NoZeroCheck(volumeSnapshot, p) ==
    IF volumeSnapshot.restoreSize # <<>>
    THEN volumeSnapshot.restoreSize[1]
    ELSE p.VolumeSize

\* Expose, the volume size of the claim.
VolumeSizeOf(volumeSnapshot, p) ==
    IF volumeSnapshot.restoreSize # <<>> /\ volumeSnapshot.restoreSize[1] # 0
    THEN volumeSnapshot.restoreSize[1]
    ELSE p.VolumeSize

\* Mutant of BackupPVCStorageClass: an entry overrides the storage class even
\* when its storage class is empty.
BackupPVCStorageClass_EmptyOverride(p) ==
    IF ConfigExists(p)
    THEN ConfigValue(p).StorageClass
    ELSE p.StorageClass

\* Expose, the storage class of the claim.
BackupPVCStorageClass(p) ==
    IF ConfigExists(p) /\ ConfigValue(p).StorageClass # ""
    THEN ConfigValue(p).StorageClass
    ELSE p.StorageClass

\* Expose, the read-only flag of the claim.
BackupPVCReadOnly(p) ==
    IF ConfigExists(p) THEN ConfigValue(p).ReadOnly ELSE FALSE

\* Mutant of SpcNoRelabeling: the flag is honoured on a read-write claim too.
SpcNoRelabeling_Unchecked(p) ==
    IF ConfigExists(p) THEN ConfigValue(p).SPCNoRelabeling ELSE FALSE

\* Expose, the relabel-skip flag handed to createBackupPod.
SpcNoRelabeling(p) ==
    IF ConfigExists(p) /\ ConfigValue(p).SPCNoRelabeling
    THEN BackupPVCReadOnly(p)
    ELSE FALSE

\* Mutant of BackupVS: the derived snapshot takes the name of the source
\* snapshot instead of the owner's.
BackupVS_SourceName(o, snapshotVS) ==
    [kind |-> "vs", name |-> snapshotVS.name, ready |-> FALSE, restoreSize |-> <<>>,
     bound |-> "", sourceContent |-> o, ownerRefs |-> {}]

\* createBackupVS: the derived snapshot object.
BackupVS(o, snapshotVS) ==
    [kind |-> "vs", name |-> o, ready |-> FALSE, restoreSize |-> <<>>,
     bound |-> "", sourceContent |-> o, ownerRefs |-> {}]

\* Mutant of BackupVSC: the name of the derived content does not depend on
\* the owner.
BackupVSC_SharedName(o, snapshotVSC, backupVS) ==
    [kind |-> "vsc", name |-> "o1",
     policy |-> VolumeSnapshotContentDelete, driver |-> snapshotVSC.driver,
     handle |-> snapshotVSC.handle, snapshotRef |-> backupVS.name]

\* createBackupVSC: the derived content object.
BackupVSC(o, snapshotVSC, backupVS) ==
    [kind |-> "vsc", name |-> o,
     policy |-> VolumeSnapshotContentDelete, driver |-> snapshotVSC.driver,
     handle |-> snapshotVSC.handle, snapshotRef |-> backupVS.name]

\* createBackupPVC: the access mode of the claim.
PVCAccessMode(readOnly) == IF readOnly THEN ReadOnlyMany ELSE ReadWriteOnce

\* Mutant of BackupPVC: the claim carries no owner reference.
BackupPVC_NoOwner(o, backupVS, storageClass, volumeMode, size, readOnly) ==
    [kind |-> "pvc", name |-> o, ownerRefs |-> {},
     accessModes |-> <<PVCAccessMode(readOnly)>>,
     storageClass |-> storageClass, volumeMode |-> volumeMode,
     dataSource |-> [Kind |-> "VolumeSnapshot", Name |-> backupVS],
     request |-> size, phase |-> "Pending", volumeName |-> <<>>]

\* createBackupPVC: the claim object.
BackupPVC(o, backupVS, storageClass, volumeMode, size, readOnly) ==
    [kind |-> "pvc", name |-> o, ownerRefs |-> {OwnerReference(o)},
     accessModes |-> <<PVCAccessMode(readOnly)>>,
     storageClass |-> storageClass, volumeMode |-> volumeMode,
     dataSource |-> [Kind |-> "VolumeSnapshot", Name |-> backupVS],
     request |-> size, phase |-> "Pending", volumeName |-> <<>>]

\* getInheritedPodInfo: the template fragments the node agent supplies.
InheritedPodInfo ==
    [image |-> "velero/velero:main", serviceAccount |-> "velero",
     volumes |-> <<"host-pods">>, volumeMounts |-> <<"host-pods">>,
     logFormatArgs |-> << <<"--log-format", "json">> >>,
     logLevelArgs |-> << <<"--log-level", "debug">> >>]

\* kube.MakePodPVCAttachment: mounts, devices and path of the claim volume.
MakePodPVCAttachment(volumeName, volumeMode, readOnly) ==
    IF volumeMode = PersistentVolumeBlock
    THEN [volumeMounts |-> <<>>, volumeDevices |-> <<volumeName>>,
          volumePath |-> <<"/", volumeName>>]
    ELSE [volumeMounts |-> <<volumeName>>, volumeDevices |-> <<>>,
          volumePath |-> <<"/", volumeName>>]

\* createBackupPod: the volume mode passed on the command line.
PodVolumeMode(backupPVC) ==
    IF backupPVC.volumeMode # "" THEN backupPVC.volumeMode
    ELSE PersistentVolumeFilesystem

\* createBackupPod: the pod security context of the OS branch.
SecurityCtx(nodeOS, spcNoRelabeling) ==
    IF nodeOS = NodeOSWindows
    THEN [RunAsUserName |-> "ContainerAdministrator", RunAsUser |-> "",
          SELinuxType |-> ""]
    ELSE [RunAsUserName |-> "", RunAsUser |-> "0",
          SELinuxType |-> IF spcNoRelabeling THEN "spc_t" ELSE ""]

\* Mutant of PodOSName: the node selector takes the requested OS as it is.
PodOSName_AsRequested(nodeOS) == nodeOS

\* createBackupPod: the OS of the node selector and of the pod OS field.
PodOSName(nodeOS) == IF nodeOS = NodeOSWindows THEN NodeOSWindows ELSE NodeOSLinux

\* createBackupPod: the tolerations of the OS branch.
Tolerations(nodeOS) ==
    IF nodeOS = NodeOSWindows
    THEN {[Key |-> "os", Operator |-> "Equal", Effect |-> "NoSchedule",
           Value |-> "windows"]}
    ELSE {}

\* Mutant of PodArgs: the volume mode is always Filesystem.
PodArgs_AlwaysFilesystem(o, backupPVC, operationTimeout, podInfo, attachment) ==
    << <<"--volume-path", attachment.volumePath>>,
       <<"--volume-mode", PersistentVolumeFilesystem>>,
       <<"--data-upload", o>>,
       <<"--resource-timeout", operationTimeout>> >>
    \o podInfo.logFormatArgs \o podInfo.logLevelArgs

\* createBackupPod: the container arguments.
PodArgs(o, backupPVC, operationTimeout, podInfo, attachment) ==
    << <<"--volume-path", attachment.volumePath>>,
       <<"--volume-mode", PodVolumeMode(backupPVC)>>,
       <<"--data-upload", o>>,
       <<"--resource-timeout", operationTimeout>> >>
    \o podInfo.logFormatArgs \o podInfo.logLevelArgs

\* createBackupPod: the hosting pod object.
BackupPod(o, backupPVC, operationTimeout, backupPVCReadOnly, spcNoRelabeling, nodeOS, podInfo) ==
    LET volumeName == UIDOf(o)
        attachment == MakePodPVCAttachment(volumeName, backupPVC.volumeMode,
                                           backupPVCReadOnly)
    IN [kind |-> "pod", name |-> o, ownerRefs |-> {OwnerReference(o)},
        container |-> UIDOf(o),
        volumes |-> <<volumeName>> \o podInfo.volumes,
        claimName |-> backupPVC.name, claimReadOnly |-> backupPVCReadOnly,
        volumeMounts |-> attachment.volumeMounts \o podInfo.volumeMounts,
        volumeDevices |-> attachment.volumeDevices,
        args |-> PodArgs(o, backupPVC, operationTimeout, podInfo, attachment),
        nodeSelector |-> <<PodOSName(nodeOS)>>, os |-> PodOSName(nodeOS),
        securityContext |-> SecurityCtx(nodeOS, spcNoRelabeling),
        tolerations |-> Tolerations(nodeOS),
        restartPolicy |-> "Never", nodeName |-> "", unrecoverable |-> FALSE]

\* ------------------------------------------------- helpers over the store

\* csi.DeleteVolumeSnapshotIfAny: delete the snapshot if it is present.
DeleteVolumeSnapshotIfAny(snapshots, name) == [snapshots EXCEPT ![name] = NoObj]

\* kube.DeletePVAndPVCIfAny: delete the claim, and its volume, if present.
DeletePVAndPVCIfAny(claims, name) == [claims EXCEPT ![name] = NoObj]

\* kube.DeletePodIfAny: delete the pod if it is present.
DeletePodIfAny(pods, name) == [pods EXCEPT ![name] = NoObj]

\* kube.WaitPVCBound: the claim is seen bound before the timeout.
WaitPVCBound(claims, name) == Exists(claims[name]) /\ claims[name].phase = "Bound"

\* kube.IsPodUnrecoverable: the shared pod-health classifier.
IsPodUnrecoverable(p) == p.unrecoverable

\* The objects of the store that belong to the exposure of owner o.
OwnStore(o) ==
    <<vs[o], vs[SnapshotNameOf(o)], vsc[o], vsc[ContentNameOf(o)], pvc[o], pod[o]>>

\* ------------------------------------------------- delete-backup requests

\* A Go string is a sequence of characters.
Repeat(c, n) == [i \in 1..n |-> c]

AlphaNumChars ==
    {"a", "b", "c", "d", "e", "f", "g", "h", "i", "j", "k", "l", "m", "n", "o",
     "p", "q", "r", "s", "t", "u", "v", "w", "x", "y", "z",
     "0", "1", "2", "3", "4", "5", "6", "7", "8", "9"}

\* v1.BackupNameLabel, "ark.heptio.com/backup-name".
BackupNameLabel ==
    <<"a", "r", "k", ".", "h", "e", "p", "t", "i", "o", ".", "c", "o", "m", "/",
      "b", "a", "c", "k", "u", "p", "-", "n", "a", "m", "e">>

\* validation.LabelValueMaxLength: the longest value (and name part of a key)
\* a label may have.
LabelValueMaxLength == 63

\* validation.DNS1123SubdomainMaxLength: the longest prefix of a label key,
\* and the longest name of a backup.
DNS1123SubdomainMaxLength == 253

\* The backup names the requests are built and listed for: two short names,
\* a name of the longest label value, a name one longer, and a name with the
\* separator of the selector syntax.
BackupNames ==
    {<<"b", "1">>, <<"b", "2">>,
     Repeat("a", LabelValueMaxLength), Repeat("a", LabelValueMaxLength + 1),
     <<"b", "1", ",", "b", "2">>}

\* NewDeleteBackupRequest(name).
NewDeleteBackupRequest(name) ==
    [Name |-> <<>>,
     GenerateName |-> name \o <<"-">>,
     Labels |-> {<<BackupNameLabel, name>>},
     BackupName |-> name,
     Phase |-> ""]

\* NewDeleteBackupRequestListOptions(name): fmt.Sprintf("%s=%s", label, name).
NewDeleteBackupRequestListOptions(name) ==
    [LabelSelector |-> BackupNameLabel \o <<"=">> \o name]

\* validation.IsValidLabelValue: empty, or at most 63 characters, alphanumeric
\* at both ends, with '-', '_' and '.' allowed in between.
IsValidLabelValue(v) ==
    /\ Len(v) <= LabelValueMaxLength
    /\ v # <<>> =>
          /\ v[1] \in AlphaNumChars /\ v[Len(v)] \in AlphaNumChars
          /\ \A i \in 1..Len(v) : v[i] \in AlphaNumChars \cup {"-", "_", "."}

\* validation.IsQualifiedName: an optional DNS subdomain prefix and '/', then
\* a non-empty name of the shape of a label value.
IsQualifiedName(k) ==
    LET slashes == {i \in 1..Len(k) : k[i] = "/"}
        cut == IF slashes = {} THEN 0 ELSE CHOOSE i \in slashes : TRUE
        prefix == SubSeq(k, 1, cut - 1)
        name == SubSeq(k, cut + 1, Len(k))
    IN /\ Cardinality(slashes) <= 1
       /\ name # <<>> /\ IsValidLabelValue(name)
       /\ cut > 0 =>
             /\ prefix # <<>> /\ Len(prefix) <= DNS1123SubdomainMaxLength
             /\ prefix[1] \in AlphaNumChars /\ prefix[Len(prefix)] \in AlphaNumChars
             /\ \A i \in 1..Len(prefix) : prefix[i] \in AlphaNumChars \cup {"-", "."}

\* The symbols of the selector syntax that occur in the strings modelled.
SpecialSymbols == {"=", ","}

\* The longest prefix of s without a special symbol.
RECURSIVE ScanID(_)
ScanID(s) ==
    IF s = <<>> \/ Head(s) \in SpecialSymbols THEN <<>>
    ELSE <<Head(s)>> \o ScanID(Tail(s))

\* labels.Lexer: the tokens of a selector string.
RECURSIVE Lex(_)
Lex(s) ==
    IF s = <<>> THEN <<>>
    ELSE IF Head(s) = ","
    THEN <<[tok |-> ",", lit |-> <<",">>]>> \o Lex(Tail(s))
    ELSE IF Head(s) = "="
    THEN IF Len(s) > 1 /\ s[2] = "="
         THEN <<[tok |-> "==", lit |-> <<"=", "=">>]>> \o Lex(SubSeq(s, 3, Len(s)))
         ELSE <<[tok |-> "=", lit |-> <<"=">>]>> \o Lex(Tail(s))
    ELSE LET id == ScanID(s)
         IN <<[tok |-> "id", lit |-> id]>> \o Lex(SubSeq(s, Len(id) + 1, Len(s)))

ParseError == [err |-> TRUE, reqs |-> <<>>]

\* labels.Parser.parseRequirement with labels.NewRequirement, on tokens that
\* start with an identifier: the requirement and the tokens left.
ParseRequirement(toks) ==
    LET key == toks[1].lit
        afterKey == Tail(toks)
        afterOp == Tail(afterKey)
    IN IF ~IsQualifiedName(key)
       THEN [err |-> TRUE, req |-> <<>>, rest |-> <<>>]
       ELSE IF afterKey = <<>> \/ Head(afterKey).tok = ","
       THEN [err |-> FALSE, req |-> [key |-> key, op |-> "exists", value |-> <<>>],
             rest |-> afterKey]
       ELSE IF Head(afterKey).tok \notin {"=", "=="}
       THEN [err |-> TRUE, req |-> <<>>, rest |-> <<>>]
       ELSE IF afterOp = <<>> \/ Head(afterOp).tok = ","
       THEN [err |-> FALSE, req |-> [key |-> key, op |-> "=", value |-> <<>>],
             rest |-> afterOp]
       ELSE IF Head(afterOp).tok # "id" \/ ~IsValidLabelValue(Head(afterOp).lit)
       THEN [err |-> TRUE, req |-> <<>>, rest |-> <<>>]
       ELSE [err |-> FALSE,
             req |-> [key |-> key, op |-> "=", value |-> Head(afterOp).lit],
             rest |-> Tail(afterOp)]

\* labels.Parser.parse: requirements separated by commas.
RECURSIVE ParseTokens(_)
ParseTokens(toks) ==
    IF toks = <<>> THEN [err |-> FALSE, reqs |-> <<>>]
    ELSE IF Head(toks).tok # "id" THEN ParseError
    ELSE LET r == ParseRequirement(toks)
         IN IF r.err THEN ParseError
            ELSE IF r.rest = <<>> THEN [err |-> FALSE, reqs |-> <<r.req>>]
            ELSE IF Head(r.rest).tok # "," THEN ParseError
            ELSE IF Len(r.rest) < 2 \/ r.rest[2].tok # "id" THEN ParseError
            ELSE LET more == ParseTokens(Tail(r.rest))
                 IN IF more.err THEN ParseError
                    ELSE [err |-> FALSE, reqs |-> <<r.req>> \o more.reqs]

\* labels.Parse(selector).
Parse(selector) == ParseTokens(Lex(selector))

\* Selector.Matches(labels.Set(item.Labels)): every requirement holds.
Matches(reqs, labelSet) ==
    \A i \in 1..Len(reqs) :
       IF reqs[i].op = "exists"
       THEN \E l \in labelSet : l[1] = reqs[i].key
       ELSE \E l \in labelSet : l[1] = reqs[i].key /\ l[2] = reqs[i].value

\* The last call of the fake client was not a List.
NotListed == [outcome |-> "none", opts |-> <<>>, store |-> <<>>, items |-> <<>>]

\* FakeDeleteBackupRequests.List(opts) over the list obj that Invokes returns:
\* the items whose labels the selector of opts matches. The selector is taken
\* from opts by testing.ExtractFromListOptions, which panics when the
\* selector string does not parse.
List(opts, obj) ==
    LET label == Parse(opts.LabelSelector)
    IN IF label.err
       THEN [outcome |-> "panic", opts |-> opts, store |-> obj, items |-> <<>>]
       ELSE [outcome |-> "ok", opts |-> opts, store |-> obj,
             items |-> SelectSeq(obj, LAMBDA item : Matches(label.reqs, item.Labels))]

\* ------------------------------------------------------------------- Init

DefaultParam ==
    [AccessMode |-> AccessModeFileSystem, StorageClass |-> SourceStorageClass,
     VolumeSize |-> 10, BackupPVCConfig |-> {}, NodeOS |-> NodeOSLinux,
     OperationTimeout |-> "4m0s"]

\* The state after construction of the exposer: the caller has taken the
\* source snapshot of every owner in os; nothing is exposed yet.
InitWith(os, ps) ==
    /\ owners = os
    /\ \E p \in ps :
          param = [o \in AllOwners |-> IF o = "o1" THEN p ELSE DefaultParam]
    /\ \E size \in RestoreSizes :
          vs = [n \in SnapshotNames |->
                  IF \E o \in os : n = SnapshotNameOf(o)
                  THEN SourceVS(CHOOSE o \in os : n = SnapshotNameOf(o), size)
                  ELSE NoObj]
    /\ vsc = [n \in ContentNames |->
                  IF \E o \in os : n = ContentNameOf(o)
                  THEN SourceVSC(CHOOSE o \in os : n = ContentNameOf(o), 0)
                  ELSE NoObj]
    /\ pvc = [n \in AllOwners |-> NoObj]
    /\ pod = [n \in AllOwners |-> NoObj]
    /\ pc = [o \in AllOwners |-> "idle"]
    /\ loc = [o \in AllOwners |-> EmptyLoc]
    /\ calls = [o \in AllOwners |-> <<>>]
    /\ last = [o \in AllOwners |-> NoResult]
    /\ prevStore = [o \in AllOwners |-> <<>>]
    /\ consec = [o \in AllOwners |-> 0]
    /\ ncalls = [o \in AllOwners |-> 0]
    /\ retakes = 0
    /\ ctxDone = [o \in AllOwners |-> FALSE]
    /\ requests = <<>>
    /\ listed = NotListed

Init == InitWith({"o1"}, ParamSet)

\* ---------------------------------------------------------- call framing

\* The number of exposer calls started so far.
TotalCalls == ncalls["o1"] + ncalls["o2"]

\* A call of owner o starts: it counts, and it ends a run of CleanUp calls.
Begin(o) ==
    /\ o \in owners
    /\ pc[o] = "idle"
    /\ TotalCalls < MaxCalls
    /\ ncalls' = [ncalls EXCEPT ![o] = @ + 1]
    /\ consec' = [consec EXCEPT ![o] = 0]
    /\ ctxDone' = [ctxDone EXCEPT ![o] = FALSE]
    /\ UNCHANGED <<owners, requests, listed, param, prevStore, retakes>>

\* A step of a call in flight.
Step(o, at) ==
    /\ o \in owners
    /\ pc[o] = at
    /\ UNCHANGED <<owners, requests, listed, param, prevStore, consec, ncalls, retakes, ctxDone>>

\* The call of owner o returns; its locals are gone.
Return(o, op, err, result) ==
    /\ last' = [last EXCEPT ![o] = [op |-> op, err |-> err, result |-> result]]
    /\ pc' = [pc EXCEPT ![o] = "idle"]
    /\ loc' = [loc EXCEPT ![o] = EmptyLoc]

\* The call of owner o goes on at position next with locals l.
Goto(o, next, l) ==
    /\ pc' = [pc EXCEPT ![o] = next]
    /\ loc' = [loc EXCEPT ![o] = l]
    /\ UNCHANGED last

Issue(o, c) == calls' = [calls EXCEPT ![o] = Append(@, c)]

\* ----------------------------------------------------------------- Expose

\* The deferred compensations registered so far, last registered first.
DefersAfterVS == <<"VS">>
\* Mutant of DefersAfterPVC: the deferred functions run first registered
\* first.
DefersAfterPVC_Fifo(defers) == defers \o <<"PVC">>

DefersAfterPVC(defers) == <<"PVC">> \o defers
DefersAfterPod(defers) == <<"Pod">> \o defers

\* The outcomes of a blocking call that Expose makes with its ctx: success or
\* failure, and failure only once the deadline of the context has expired.
StepOutcomes(o) == IF ctxDone[o] THEN {FALSE} ELSE BOOLEAN

\* Mutant of DeferFires: the condition of the deferred functions is inverted.
DeferFires_OnSuccess(l) == l.err = NilErr

\* `if err != nil` of the deferred functions.
DeferFires(l) == l.err # NilErr

\* csi.WaitVolumeSnapshotReady: the call starts; the ready source snapshot is
\* returned, or the wait ends in a timeout or an error.
ExposeWaitReady(o) ==
    /\ Begin(o)
    /\ UNCHANGED <<vs, vsc, pvc, pod>>
    /\ LET name == SnapshotNameOf(o) IN
       \E ok \in BOOLEAN :
          IF ok /\ Exists(vs[name]) /\ vs[name].ready
          THEN /\ calls' = [calls EXCEPT ![o] = <<Call("waitVSReady", name, "ok")>>]
               /\ Goto(o, "getVSC", [EmptyLoc EXCEPT !.volumeSnapshot = vs[name]])
          ELSE /\ calls' = [calls EXCEPT ![o] = <<Call("waitVSReady", name, "error")>>]
               /\ Return(o, "Expose", "error wait volume snapshot ready", NoObj)

\* csi.GetVolumeSnapshotContentForVolumeSnapshot: the one call of Expose that
\* is not given ctx, so the deadline does not end it.
ExposeGetVSC(o) ==
    /\ Step(o, "getVSC")
    /\ UNCHANGED <<vs, vsc, pvc, pod>>
    /\ LET name == loc[o].volumeSnapshot.bound IN
       \E ok \in BOOLEAN :
          IF ok /\ name # "" /\ Exists(vsc[name])
          THEN /\ Issue(o, Call("getVSC", name, "ok"))
               /\ Goto(o, "createVS", [loc[o] EXCEPT !.vsc = vsc[name]])
          ELSE /\ Issue(o, Call("getVSC", name, "error"))
               /\ Return(o, "Expose", "error to get volume snapshot content", NoObj)

\* Mutant of ExposeCreateVS: the deferred deletion of the Derived Snapshot is
\* registered before the result of the create is checked.
ExposeCreateVS_DeferFirst(o) ==
    /\ Step(o, "createVS")
    /\ UNCHANGED <<vsc, pvc, pod>>
    /\ LET obj == BackupVS(o, loc[o].volumeSnapshot) IN
       \E ok \in StepOutcomes(o) :
          IF ok /\ ~Exists(vs[obj.name])
          THEN /\ vs' = [vs EXCEPT ![obj.name] = obj]
               /\ Issue(o, Call("createVS", obj.name, "ok"))
               /\ Goto(o, "createVSC", [loc[o] EXCEPT !.backupVS = obj,
                                                      !.defers = DefersAfterVS])
          ELSE /\ UNCHANGED vs
               /\ Issue(o, Call("createVS", obj.name, "error"))
               /\ Goto(o, "defers",
                       [loc[o] EXCEPT !.backupVS = obj, !.defers = DefersAfterVS,
                                      !.err = "error to create backup volume snapshot"])

\* Mutant of ExposeCreateVS: a Derived Snapshot that exists already is taken
\* for the one of this call.
ExposeCreateVS_AdoptExisting(o) ==
    /\ Step(o, "createVS")
    /\ UNCHANGED <<vsc, pvc, pod>>
    /\ LET obj == BackupVS(o, loc[o].volumeSnapshot) IN
       \E ok \in StepOutcomes(o) :
          IF ok
          THEN /\ vs' = [vs EXCEPT ![obj.name] = IF Exists(@) THEN @ ELSE obj]
               /\ Issue(o, Call("createVS", obj.name, "ok"))
               /\ Goto(o, "createVSC", [loc[o] EXCEPT !.backupVS = obj,
                                                      !.defers = DefersAfterVS])
          ELSE /\ UNCHANGED vs
               /\ Issue(o, Call("createVS", obj.name, "error"))
               /\ Return(o, "Expose", "error to create backup volume snapshot", NoObj)

\* createBackupVS, and the registration of the first deferred function.
ExposeCreateVS(o) ==
    /\ Step(o, "createVS")
    /\ UNCHANGED <<vsc, pvc, pod>>
    /\ LET obj == BackupVS(o, loc[o].volumeSnapshot) IN
       \E ok \in StepOutcomes(o) :
          IF ok /\ ~Exists(vs[obj.name])
          THEN /\ vs' = [vs EXCEPT ![obj.name] = obj]
               /\ Issue(o, Call("createVS", obj.name, "ok"))
               /\ Goto(o, "createVSC", [loc[o] EXCEPT !.backupVS = obj,
                                                      !.defers = DefersAfterVS])
          ELSE /\ UNCHANGED vs
               /\ Issue(o, Call("createVS", obj.name, "error"))
               /\ Return(o, "Expose", "error to create backup volume snapshot", NoObj)

\* Mutant of ExposeCreateVSC: on an already-exists answer the content is
\* replaced and the create is issued again.
ExposeCreateVSC_Retry(o) ==
    /\ Step(o, "createVSC")
    /\ UNCHANGED <<vs, pvc, pod>>
    /\ LET obj == BackupVSC(o, loc[o].vsc, loc[o].backupVS) IN
       \E ok \in StepOutcomes(o) :
          IF ok /\ ~Exists(vsc[obj.name])
          THEN /\ vsc' = [vsc EXCEPT ![obj.name] = obj]
               /\ Issue(o, Call("createVSC", obj.name, "ok"))
               /\ Goto(o, "retain", [loc[o] EXCEPT !.backupVSC = obj])
          ELSE IF ok
          THEN /\ vsc' = [vsc EXCEPT ![obj.name] = obj]
               /\ calls' = [calls EXCEPT ![o] =
                      @ \o <<Call("createVSC", obj.name, "error"),
                             Call("createVSC", obj.name, "ok")>>]
               /\ Goto(o, "retain", [loc[o] EXCEPT !.backupVSC = obj])
          ELSE /\ UNCHANGED vsc
               /\ Issue(o, Call("createVSC", obj.name, "error"))
               /\ Goto(o, "defers",
                       [loc[o] EXCEPT !.err = "error to create backup volume snapshot content"])

\* createBackupVSC.
ExposeCreateVSC(o) ==
    /\ Step(o, "createVSC")
    /\ UNCHANGED <<vs, pvc, pod>>
    /\ LET obj == BackupVSC(o, loc[o].vsc, loc[o].backupVS) IN
       \E ok \in StepOutcomes(o) :
          IF ok /\ ~Exists(vsc[obj.name])
          THEN /\ vsc' = [vsc EXCEPT ![obj.name] = obj]
               /\ Issue(o, Call("createVSC", obj.name, "ok"))
               /\ Goto(o, "retain", [loc[o] EXCEPT !.backupVSC = obj])
          ELSE /\ UNCHANGED vsc
               /\ Issue(o, Call("createVSC", obj.name, "error"))
               /\ Goto(o, "defers",
                       [loc[o] EXCEPT !.err = "error to create backup volume snapshot content"])

\* Mutant of ExposeRetainVSC: the error of csi.RetainVSC is ignored.
ExposeRetainVSC_IgnoreError(o) ==
    /\ Step(o, "retain")
    /\ UNCHANGED <<vs, pvc, pod>>
    /\ LET name == loc[o].vsc.name IN
       \E ok \in StepOutcomes(o) :
          IF ok /\ Exists(vsc[name])
          THEN /\ vsc' = [vsc EXCEPT ![name].policy = VolumeSnapshotContentRetain]
               /\ Issue(o, Call("retainVSC", name, "ok"))
               /\ Goto(o, "deleteVS", loc[o])
          ELSE /\ UNCHANGED vsc
               /\ Issue(o, Call("retainVSC", name, "error"))
               /\ Goto(o, "deleteVS", loc[o])

\* csi.RetainVSC on the source content.
ExposeRetainVSC(o) ==
    /\ Step(o, "retain")
    /\ UNCHANGED <<vs, pvc, pod>>
    /\ LET name == loc[o].vsc.name IN
       \E ok \in StepOutcomes(o) :
          IF ok /\ Exists(vsc[name])
          THEN /\ vsc' = [vsc EXCEPT ![name].policy = VolumeSnapshotContentRetain]
               /\ Issue(o, Call("retainVSC", name, "ok"))
               /\ Goto(o, "deleteVS", loc[o])
          ELSE /\ UNCHANGED vsc
               /\ Issue(o, Call("retainVSC", name, "error"))
               /\ Goto(o, "defers",
                       [loc[o] EXCEPT !.err = "error to retain volume snapshot content"])

\* Mutant of ExposeDeleteVS: Expose goes on to the deletion of the source
\* content although the deletion of the source snapshot failed.
ExposeDeleteVS_IgnoreError(o) ==
    /\ Step(o, "deleteVS")
    /\ UNCHANGED <<vsc, pvc, pod>>
    /\ LET name == loc[o].volumeSnapshot.name IN
       \E ok \in StepOutcomes(o) :
          IF ok /\ Exists(vs[name])
          THEN /\ vs' = [vs EXCEPT ![name] = NoObj]
               /\ Issue(o, Call("deleteVS", name, "ok"))
               /\ Goto(o, "deleteVSC", loc[o])
          ELSE /\ UNCHANGED vs
               /\ Issue(o, Call("deleteVS", name, "error"))
               /\ Goto(o, "deleteVSC", loc[o])

\* csi.EnsureDeleteVS on the source snapshot.
ExposeDeleteVS(o) ==
    /\ Step(o, "deleteVS")
    /\ UNCHANGED <<vsc, pvc, pod>>
    /\ LET name == loc[o].volumeSnapshot.name IN
       \E ok \in StepOutcomes(o) :
          IF ok /\ Exists(vs[name])
          THEN /\ vs' = [vs EXCEPT ![name] = NoObj]
               /\ Issue(o, Call("deleteVS", name, "ok"))
               /\ Goto(o, "deleteVSC", loc[o])
          ELSE /\ UNCHANGED vs
               /\ Issue(o, Call("deleteVS", name, "error"))
               /\ Goto(o, "defers",
                       [loc[o] EXCEPT !.err = "error to delete volume snapshot"])

\* Mutant of ExposeDeleteVSC: the content deleted is the derived one.
ExposeDeleteVSC_Derived(o) ==
    /\ Step(o, "deleteVSC")
    /\ UNCHANGED <<vs, pvc, pod>>
    /\ LET name == loc[o].backupVSC.name IN
       \E ok \in StepOutcomes(o) :
          IF ok /\ Exists(vsc[name])
          THEN /\ vsc' = [vsc EXCEPT ![name] = NoObj]
               /\ Issue(o, Call("deleteVSC", name, "ok"))
               /\ Goto(o, "createPVC", loc[o])
          ELSE /\ UNCHANGED vsc
               /\ Issue(o, Call("deleteVSC", name, "error"))
               /\ Goto(o, "defers",
                       [loc[o] EXCEPT !.err = "error to delete volume snapshot content"])

\* Mutant of ExposeDeleteVSC: a failed delete of the source content is
\* returned without running the deferred functions.
ExposeDeleteVSC_NoRollback(o) ==
    /\ Step(o, "deleteVSC")
    /\ UNCHANGED <<vs, pvc, pod>>
    /\ LET name == loc[o].vsc.name IN
       \E ok \in StepOutcomes(o) :
          IF ok /\ Exists(vsc[name])
          THEN /\ vsc' = [vsc EXCEPT ![name] = NoObj]
               /\ Issue(o, Call("deleteVSC", name, "ok"))
               /\ Goto(o, "createPVC", loc[o])
          ELSE /\ UNCHANGED vsc
               /\ Issue(o, Call("deleteVSC", name, "error"))
               /\ Return(o, "Expose", "error to delete volume snapshot content", NoObj)

\* csi.EnsureDeleteVSC on the source content.
ExposeDeleteVSC(o) ==
    /\ Step(o, "deleteVSC")
    /\ UNCHANGED <<vs, pvc, pod>>
    /\ LET name == loc[o].vsc.name IN
       \E ok \in StepOutcomes(o) :
          IF ok /\ Exists(vsc[name])
          THEN /\ vsc' = [vsc EXCEPT ![name] = NoObj]
               /\ Issue(o, Call("deleteVSC", name, "ok"))
               /\ Goto(o, "createPVC", loc[o])
          ELSE /\ UNCHANGED vsc
               /\ Issue(o, Call("deleteVSC", name, "error"))
               /\ Goto(o, "defers",
                       [loc[o] EXCEPT !.err = "error to delete volume snapshot content"])

\* The size, class and mode resolution of Expose, then createBackupPVC and
\* the registration of the second deferred function.
ExposeCreatePVC(o) ==
    /\ Step(o, "createPVC")
    /\ UNCHANGED <<vs, vsc, pod>>
    /\ LET p == param[o]
           volumeSize == VolumeSizeOf(loc[o].volumeSnapshot, p)
           mode == getVolumeModeByAccessMode(p.AccessMode)
           obj == BackupPVC(o, loc[o].backupVS.name, BackupPVCStorageClass(p),
                            mode.mode, volumeSize, BackupPVCReadOnly(p))
       IN IF mode.err # NilErr
          THEN /\ UNCHANGED <<pvc, calls>>
               /\ Goto(o, "defers", [loc[o] EXCEPT !.err = "error to create backup pvc"])
          ELSE \E ok \in StepOutcomes(o) :
                 IF ok /\ ~Exists(pvc[obj.name])
                 THEN /\ pvc' = [pvc EXCEPT ![obj.name] = obj]
                      /\ Issue(o, Call("createPVC", obj.name, "ok"))
                      /\ Goto(o, "getPodInfo",
                              [loc[o] EXCEPT !.backupPVC = obj,
                                             !.defers = DefersAfterPVC(@)])
                 ELSE /\ UNCHANGED pvc
                      /\ Issue(o, Call("createPVC", obj.name, "error"))
                      /\ Goto(o, "defers",
                              [loc[o] EXCEPT !.err = "error to create backup pvc"])

\* createBackupPod, its first blocking call: getInheritedPodInfo fetches the
\* pod template of the node agent.
ExposeGetPodInfo(o) ==
    /\ Step(o, "getPodInfo")
    /\ UNCHANGED <<vs, vsc, pvc, pod>>
    /\ \E ok \in StepOutcomes(o) :
          IF ok
          THEN /\ Issue(o, Call("getPodInfo", "node-agent", "ok"))
               /\ Goto(o, "createPod", loc[o])
          ELSE /\ Issue(o, Call("getPodInfo", "node-agent", "error"))
               /\ Goto(o, "defers", [loc[o] EXCEPT !.err = "error to create backup pod"])

\* createBackupPod, its second blocking call: the pod is built and created;
\* then the third deferred function is registered.
ExposeCreatePod(o) ==
    /\ Step(o, "createPod")
    /\ UNCHANGED <<vs, vsc, pvc>>
    /\ LET p == param[o]
           obj == BackupPod(o, loc[o].backupPVC, p.OperationTimeout,
                            BackupPVCReadOnly(p), SpcNoRelabeling(p), p.NodeOS,
                            InheritedPodInfo)
       IN \E ok \in StepOutcomes(o) :
             IF ok /\ ~Exists(pod[obj.name])
             THEN /\ pod' = [pod EXCEPT ![obj.name] = obj]
                  /\ Issue(o, Call("createPod", obj.name, "ok"))
                  /\ Goto(o, "defers", [loc[o] EXCEPT !.defers = DefersAfterPod(@)])
             ELSE /\ UNCHANGED pod
                  /\ Issue(o, Call("createPod", obj.name, "error"))
                  /\ Goto(o, "defers",
                          [loc[o] EXCEPT !.err = "error to create backup pod"])

\* Mutant of ExposeRunDefer: a deferred function gives up when the context of
\* the call is done.
ExposeRunDefer_GiveUpWhenDone(o) ==
    /\ Step(o, "defers")
    /\ loc[o].defers # <<>>
    /\ LET d == Head(loc[o].defers)
           fires == DeferFires(loc[o]) /\ ~ctxDone[o]
       IN /\ vs' = IF fires /\ d = "VS"
                   THEN DeleteVolumeSnapshotIfAny(vs, loc[o].backupVS.name) ELSE vs
          /\ pvc' = IF fires /\ d = "PVC"
                    THEN DeletePVAndPVCIfAny(pvc, loc[o].backupPVC.name) ELSE pvc
          /\ pod' = IF fires /\ d = "Pod"
                    THEN DeletePodIfAny(pod, o) ELSE pod
          /\ IF fires
             THEN Issue(o, Call(CASE d = "VS" -> "deleteVSIfAny"
                                  [] d = "PVC" -> "deletePVCIfAny"
                                  [] OTHER -> "deletePodIfAny", o, "ok"))
             ELSE UNCHANGED calls
          /\ UNCHANGED vsc
          /\ Goto(o, "defers", [loc[o] EXCEPT !.defers = Tail(@)])

\* The outcomes of a delete helper that a deferred function calls with the
\* ctx of Expose: the object is removed, or, once the deadline of the context
\* has expired, the delete may fail.
HelperOutcomes(o) == IF ctxDone[o] THEN BOOLEAN ELSE {TRUE}

\* Expose returns: the deferred functions run, last registered first, and
\* each calls its delete helper when err is not nil.  The helper is called
\* with the ctx of Expose and returns nothing: when its delete fails the
\* object stays, and Expose does not learn of it.
ExposeRunDefer(o) ==
    /\ Step(o, "defers")
    /\ loc[o].defers # <<>>
    /\ \E ok \in HelperOutcomes(o) :
          LET d == Head(loc[o].defers)
              fires == DeferFires(loc[o])
              deletes == fires /\ ok
          IN /\ vs' = IF deletes /\ d = "VS"
                      THEN DeleteVolumeSnapshotIfAny(vs, loc[o].backupVS.name) ELSE vs
             /\ pvc' = IF deletes /\ d = "PVC"
                       THEN DeletePVAndPVCIfAny(pvc, loc[o].backupPVC.name) ELSE pvc
             /\ pod' = IF deletes /\ d = "Pod"
                       THEN DeletePodIfAny(pod, o) ELSE pod
             /\ IF fires
                THEN Issue(o, Call(CASE d = "VS" -> "deleteVSIfAny"
                                     [] d = "PVC" -> "deletePVCIfAny"
                                     [] OTHER -> "deletePodIfAny", o,
                                   IF deletes THEN "ok" ELSE "error"))
                ELSE UNCHANGED calls
             /\ UNCHANGED vsc
             /\ Goto(o, "defers", [loc[o] EXCEPT !.defers = Tail(@)])

\* Mutant of ExposeReturn: the error is dropped on return.
ExposeReturn_DropError(o) ==
    /\ Step(o, "defers")
    /\ loc[o].defers = <<>>
    /\ UNCHANGED <<vs, vsc, pvc, pod, calls>>
    /\ Return(o, "Expose", NilErr, NoObj)

\* Expose hands its error, or nil, to the caller.
ExposeReturn(o) ==
    /\ Step(o, "defers")
    /\ loc[o].defers = <<>>
    /\ UNCHANGED <<vs, vsc, pvc, pod, calls>>
    /\ Return(o, "Expose", loc[o].err, NoObj)

\* ------------------------------------------------------------- GetExposed

\* GetExposed, the search of the backup volume in the pod and the result.
ExposeResultOf(o, p) ==
    LET volumeName == UIDOf(o)
        containerName == UIDOf(o)
    IN IF \A i \in 1..Len(p.volumes) : p.volumes[i] # volumeName
       THEN [err |-> "backup pod doesn't have the expected backup volume",
             result |-> NoObj]
       ELSE [err |-> NilErr,
             result |-> [kind |-> "result", HostingPod |-> p.name,
                         HostingContainer |-> containerName,
                         VolumeName |-> volumeName, NodeOS |-> p.nodeSelector]]

\* Mutant of LookupError: not-found is reported like any other failure.
LookupError_Always(outcome) == "error to get backup pod"

\* GetExposed, the error returned when the pod lookup fails: nil on not-found.
LookupError(outcome) ==
    IF outcome = "notFound" THEN NilErr ELSE "error to get backup pod"

\* GetExposed, the lookup of the hosting pod through the caller's NodeClient,
\* which sees the pods of its own node only: a pod that exists but is not
\* visible to that client is reported not found, as an absent pod is.
GetExposedGetPod(o) ==
    /\ Begin(o)
    /\ UNCHANGED <<vs, vsc, pvc, pod>>
    /\ \/ /\ Exists(pod[o])
          /\ calls' = [calls EXCEPT ![o] = <<Call("getPod", o, "ok")>>]
          /\ Goto(o, "waitBound", [EmptyLoc EXCEPT !.pod = pod[o]])
       \/ /\ calls' = [calls EXCEPT ![o] = <<Call("getPod", o, "notFound")>>]
          /\ Return(o, "GetExposed", LookupError("notFound"), NoObj)
       \/ /\ calls' = [calls EXCEPT ![o] = <<Call("getPod", o, "error")>>]
          /\ Return(o, "GetExposed", LookupError("error"), NoObj)

\* Mutant of GetExposedWaitBound: the error of kube.WaitPVCBound is ignored.
GetExposedWaitBound_NoWait(o) ==
    /\ Step(o, "waitBound")
    /\ UNCHANGED <<vs, vsc, pvc, pod>>
    /\ \E ok \in BOOLEAN :
         /\ Issue(o, Call("waitPVCBound", o,
                          IF ok /\ WaitPVCBound(pvc, o) THEN "ok" ELSE "error"))
         /\ LET r == ExposeResultOf(o, loc[o].pod)
            IN Return(o, "GetExposed", r.err, r.result)

\* Mutant of GetExposedWaitBound: the wait for the claim has no timeout.
GetExposedWaitBound_NoTimeout(o) ==
    /\ Step(o, "waitBound")
    /\ UNCHANGED <<vs, vsc, pvc, pod>>
    /\ WaitPVCBound(pvc, o)
    /\ Issue(o, Call("waitPVCBound", o, "ok"))
    /\ LET r == ExposeResultOf(o, loc[o].pod)
       IN Return(o, "GetExposed", r.err, r.result)

\* GetExposed, kube.WaitPVCBound and the result.
GetExposedWaitBound(o) ==
    /\ Step(o, "waitBound")
    /\ UNCHANGED <<vs, vsc, pvc, pod>>
    /\ \E ok \in BOOLEAN :
         IF ok /\ WaitPVCBound(pvc, o)
         THEN /\ Issue(o, Call("waitPVCBound", o, "ok"))
              /\ LET r == ExposeResultOf(o, loc[o].pod)
                 IN Return(o, "GetExposed", r.err, r.result)
         ELSE /\ Issue(o, Call("waitPVCBound", o, "error"))
              /\ Return(o, "GetExposed", "error to wait backup PVC bound", NoObj)

\* ------------------------------------------------------------ PeekExposed

\* Mutant of PeekError: a failed lookup is not swallowed.
PeekError_NotSwallowed(outcome, p) ==
    IF outcome = "notFound" THEN NilErr
    ELSE IF outcome # "ok" THEN "error to peek backup pod"
    ELSE IF IsPodUnrecoverable(p) THEN "pod is unrecoverable"
    ELSE NilErr

\* PeekExposed, the error returned for each outcome of the pod lookup.
PeekError(outcome, p) ==
    IF outcome = "notFound" THEN NilErr
    ELSE IF outcome # "ok" THEN NilErr
    ELSE IF IsPodUnrecoverable(p) THEN "pod is unrecoverable"
    ELSE NilErr

\* Mutant of PeekExposed: a Hosting Pod found unrecoverable is removed.
PeekExposed_ReapFailed(o) ==
    /\ Begin(o)
    /\ UNCHANGED <<vs, vsc, pvc>>
    /\ \E outcome \in {"ok", "notFound", "error"} :
         /\ outcome = "ok" => Exists(pod[o])
         /\ outcome = "notFound" => ~Exists(pod[o])
         /\ calls' = [calls EXCEPT ![o] = <<Call("getPod", o, outcome)>>]
         /\ pod' = IF PeekError(outcome, pod[o]) # NilErr
                   THEN [pod EXCEPT ![o] = NoObj] ELSE pod
         /\ Return(o, "PeekExposed", PeekError(outcome, pod[o]), NoObj)

PeekExposed(o) ==
    /\ Begin(o)
    /\ UNCHANGED <<vs, vsc, pvc, pod>>
    /\ \E outcome \in {"ok", "notFound", "error"} :
         /\ outcome = "ok" => Exists(pod[o])
         /\ outcome = "notFound" => ~Exists(pod[o])
         /\ calls' = [calls EXCEPT ![o] = <<Call("getPod", o, outcome)>>]
         /\ Return(o, "PeekExposed", PeekError(outcome, pod[o]), NoObj)

\* --------------------------------------------------------- DiagnoseExpose

\* The first and the last line of the report.
DiagBegin == "begin diagnose CSI exposer"
DiagEnd == "end diagnose CSI exposer"

\* One line (or one block) of the report: its text, the object it names and
\* the error it carries.
DiagLine(text, name, err) == [text |-> text, name |-> name, err |-> err]

\* The outcomes of a Get of object obj: found, not found, or a failed call.
GetOutcomes(obj) == IF Exists(obj) THEN {"ok", "error"} ELSE {"notFound", "error"}

\* `if err != nil { ...; diag += "error getting backup ..." }` for one lookup.
DiagErrorLines(what, name, outcome) ==
    IF outcome # "ok"
    THEN <<DiagLine("error getting backup " \o what, name, outcome)>>
    ELSE <<>>

\* `if pod != nil`: the pod block, and the node-agent check when the pod has
\* been assigned a node.  d holds the objects as DiagnoseExpose read them
\* (NoObj for nil) and the outcomes of its calls.
DiagPodBlock(d) ==
    IF ~Exists(d.pod) THEN <<>>
    ELSE <<DiagLine("pod", d.pod.name, NilErr)>> \o
         (IF d.pod.nodeName # "" /\ d.na # "ok"
          THEN <<DiagLine("node-agent is not running in node", d.pod.nodeName, d.na)>>
          ELSE <<>>)

\* `if pvc != nil`: the claim block, and the volume it is bound to.
DiagPVCBlock(d) ==
    IF ~Exists(d.pvc) THEN <<>>
    ELSE <<DiagLine("pvc", d.pvc.name, NilErr)>> \o
         (IF d.pvc.volumeName = <<>> THEN <<>>
          ELSE IF d.gv # "ok"
               THEN <<DiagLine("error getting backup pv", d.pvc.volumeName, d.gv)>>
               ELSE <<DiagLine("pv", d.pvc.volumeName, NilErr)>>)

\* `if vs != nil`: the snapshot block, and the content it is bound to.
DiagVSBlock(d) ==
    IF ~Exists(d.vs) THEN <<>>
    ELSE <<DiagLine("vs", d.vs.name, NilErr)>> \o
         (IF d.vs.bound = "" THEN <<>>
          ELSE IF d.gb # "ok"
               THEN <<DiagLine("error getting backup vsc", d.vs.bound, d.gb)>>
               ELSE <<DiagLine("vsc", d.vs.bound, NilErr)>>)

\* Mutant of DiagnoseReport: the report ends at the first failed lookup.
DiagnoseReport_AbortOnError(o, d) ==
    IF d.gp # "ok"
    THEN <<DiagLine(DiagBegin, "", NilErr)>> \o DiagErrorLines("pod", o, d.gp)
    ELSE <<DiagLine(DiagBegin, "", NilErr)>>
         \o DiagErrorLines("pvc", o, d.gc)
         \o DiagErrorLines("vs", o, d.gs)
         \o DiagPodBlock(d)
         \o DiagPVCBlock(d)
         \o DiagVSBlock(d)
         \o <<DiagLine(DiagEnd, "", NilErr)>>

\* The report: the string DiagnoseExpose has built when it returns, as the
\* sequence of its lines, in the order in which the code appends them.
DiagnoseReport(o, d) ==
    <<DiagLine(DiagBegin, "", NilErr)>>
    \o DiagErrorLines("pod", o, d.gp)
    \o DiagErrorLines("pvc", o, d.gc)
    \o DiagErrorLines("vs", o, d.gs)
    \o DiagPodBlock(d)
    \o DiagPVCBlock(d)
    \o DiagVSBlock(d)
    \o <<DiagLine(DiagEnd, "", NilErr)>>

\* DiagnoseExpose, Pods.Get by the owner's name: the call starts.
DiagnoseGetPod(o) ==
    /\ Begin(o)
    /\ UNCHANGED <<vs, vsc, pvc, pod>>
    /\ \E gp \in GetOutcomes(pod[o]) :
          /\ calls' = [calls EXCEPT ![o] = <<Call("getPod", o, gp)>>]
          /\ Goto(o, "diagGetPVC",
                  [EmptyLoc EXCEPT !.diag.gp = gp,
                                   !.diag.pod = IF gp = "ok" THEN pod[o] ELSE NoObj])

\* DiagnoseExpose, PersistentVolumeClaims.Get by the owner's name.
DiagnoseGetPVC(o) ==
    /\ Step(o, "diagGetPVC")
    /\ UNCHANGED <<vs, vsc, pvc, pod>>
    /\ \E gc \in GetOutcomes(pvc[o]) :
          /\ Issue(o, Call("getPVC", o, gc))
          /\ Goto(o, "diagGetVS",
                  [loc[o] EXCEPT !.diag.gc = gc,
                                 !.diag.pvc = IF gc = "ok" THEN pvc[o] ELSE NoObj])

\* DiagnoseExpose, VolumeSnapshots.Get by the owner's name.
DiagnoseGetVS(o) ==
    /\ Step(o, "diagGetVS")
    /\ UNCHANGED <<vs, vsc, pvc, pod>>
    /\ \E gs \in GetOutcomes(vs[o]) :
          /\ Issue(o, Call("getVS", o, gs))
          /\ Goto(o, "diagPod",
                  [loc[o] EXCEPT !.diag.gs = gs,
                                 !.diag.vs = IF gs = "ok" THEN vs[o] ELSE NoObj])

\* DiagnoseExpose, `if pod != nil`: the node-agent check on the node of the
\* pod that was read.
DiagnosePod(o) ==
    /\ Step(o, "diagPod")
    /\ UNCHANGED <<vs, vsc, pvc, pod>>
    /\ LET p == loc[o].diag.pod
       IN IF Exists(p) /\ p.nodeName # ""
          THEN \E na \in {"ok", "error"} :
                  /\ Issue(o, Call("isRunningInNode", p.nodeName, na))
                  /\ Goto(o, "diagPVC", [loc[o] EXCEPT !.diag.na = na])
          ELSE /\ UNCHANGED calls
               /\ Goto(o, "diagPVC", loc[o])

\* DiagnoseExpose, `if pvc != nil`: PersistentVolumes.Get of the volume the
\* claim that was read names.
DiagnosePVC(o) ==
    /\ Step(o, "diagPVC")
    /\ UNCHANGED <<vs, vsc, pvc, pod>>
    /\ LET c == loc[o].diag.pvc
       IN IF Exists(c) /\ c.volumeName # <<>>
          THEN \E gv \in {"ok", "error"} :
                  /\ Issue(o, Call("getPV", c.volumeName, gv))
                  /\ Goto(o, "diagVS", [loc[o] EXCEPT !.diag.gv = gv])
          ELSE /\ UNCHANGED calls
               /\ Goto(o, "diagVS", loc[o])

\* DiagnoseExpose, `if vs != nil`: VolumeSnapshotContents.Get of the content
\* the snapshot that was read is bound to; then the report is returned.
DiagnoseVS(o) ==
    /\ Step(o, "diagVS")
    /\ UNCHANGED <<vs, vsc, pvc, pod>>
    /\ LET s == loc[o].diag.vs
       IN IF Exists(s) /\ s.bound # ""
          THEN \E gb \in GetOutcomes(vsc[s.bound]) :
                  /\ Issue(o, Call("getBoundVSC", s.bound, gb))
                  /\ Return(o, "DiagnoseExpose", NilErr,
                            [kind |-> "diag",
                             lines |-> DiagnoseReport(o, [loc[o].diag EXCEPT !.gb = gb])])
          ELSE /\ UNCHANGED calls
               /\ Return(o, "DiagnoseExpose", NilErr,
                         [kind |-> "diag", lines |-> DiagnoseReport(o, loc[o].diag)])

\* ---------------------------------------------------------------- CleanUp

\* The outcome a delete-if-present helper logs for the object it is given.
IfAnyOutcome(obj) == IF Exists(obj) THEN "ok" ELSE "notFound"

\* CleanUp, kube.DeletePodIfAny on the hosting pod.
CleanUpPod(o) ==
    /\ o \in owners
    /\ pc[o] = "idle"
    /\ TotalCalls < MaxCalls
    /\ ncalls' = [ncalls EXCEPT ![o] = @ + 1]
    /\ pod' = DeletePodIfAny(pod, o)
    /\ calls' = [calls EXCEPT ![o] = <<Call("deletePodIfAny", o, IfAnyOutcome(pod[o]))>>]
    /\ Goto(o, "cleanPVC", EmptyLoc)
    /\ ctxDone' = [ctxDone EXCEPT ![o] = FALSE]
    /\ UNCHANGED <<owners, requests, listed, param, vs, vsc, pvc, prevStore, consec, retakes>>

\* Mutant of CleanUpPVC: the claim deletion is left out.
CleanUpPVC_Skipped(o) ==
    /\ Step(o, "cleanPVC")
    /\ UNCHANGED <<vs, vsc, pvc, pod, calls>>
    /\ Goto(o, "cleanVS", loc[o])

\* CleanUp, kube.DeletePVAndPVCIfAny on the intermediate claim.
CleanUpPVC(o) ==
    /\ Step(o, "cleanPVC")
    /\ pvc' = DeletePVAndPVCIfAny(pvc, o)
    /\ Issue(o, Call("deletePVCIfAny", o, IfAnyOutcome(pvc[o])))
    /\ Goto(o, "cleanVS", loc[o])
    /\ UNCHANGED <<vs, vsc, pod>>

\* Mutant of CleanUpVS: the derived snapshot is deleted only when the claim
\* was already gone when CleanUp looked for it.
CleanUpVS_OnlyAfterClaimGone(o) ==
    /\ Step(o, "cleanVS")
    /\ LET gone == calls[o][Len(calls[o])].outcome = "notFound" IN
       /\ vs' = IF gone THEN DeleteVolumeSnapshotIfAny(vs, o) ELSE vs
       /\ Issue(o, Call("deleteVSIfAny", o,
                        IF gone THEN IfAnyOutcome(vs[o]) ELSE "error"))
    /\ Goto(o, "cleanSourceVS", loc[o])
    /\ UNCHANGED <<vsc, pvc, pod>>

\* CleanUp, csi.DeleteVolumeSnapshotIfAny on the derived snapshot.
CleanUpVS(o) ==
    /\ Step(o, "cleanVS")
    /\ vs' = DeleteVolumeSnapshotIfAny(vs, o)
    /\ Issue(o, Call("deleteVSIfAny", o, IfAnyOutcome(vs[o])))
    /\ Goto(o, "cleanSourceVS", loc[o])
    /\ UNCHANGED <<vsc, pvc, pod>>

\* CleanUp, csi.DeleteVolumeSnapshotIfAny on the source snapshot; CleanUp
\* returns nothing.
CleanUpSourceVS(o) ==
    /\ pc[o] = "cleanSourceVS"
    /\ vs' = DeleteVolumeSnapshotIfAny(vs, SnapshotNameOf(o))
    /\ Issue(o, Call("deleteVSIfAny", SnapshotNameOf(o),
                     IfAnyOutcome(vs[SnapshotNameOf(o)])))
    /\ Return(o, "CleanUp", NilErr, NoObj)
    /\ UNCHANGED <<owners, requests, listed, param, vsc, pvc, pod, ncalls, retakes, ctxDone>>
    /\ consec' = [consec EXCEPT ![o] = IF @ < 2 THEN @ + 1 ELSE @]
    /\ prevStore' = [prevStore EXCEPT ![o] = IF consec[o] = 0 THEN OwnStore(o)' ELSE @]

\* ------------------------------------------------------- the environment

\* The snapshot controller reports the source snapshot ready.
SnapshotBecomesReady(o) ==
    /\ o \in owners
    /\ Exists(vs[SnapshotNameOf(o)])
    /\ ~vs[SnapshotNameOf(o)].ready
    /\ vs' = [vs EXCEPT ![SnapshotNameOf(o)].ready = TRUE]
    /\ UNCHANGED <<owners, requests, listed, param, vsc, pvc, pod, pc, loc, calls, last,
                   prevStore, consec, ncalls, retakes, ctxDone>>

\* The external snapshot step takes the source snapshot again.
RetakeSnapshot(o) ==
    /\ o \in owners
    /\ pc[o] = "idle"
    /\ retakes < MaxRetakes
    /\ ~Exists(vs[SnapshotNameOf(o)])
    /\ ~Exists(vsc[ContentNameOf(o)])
    /\ retakes' = retakes + 1
    /\ \E size \in RestoreSizes :
         vs' = [vs EXCEPT ![SnapshotNameOf(o)] = SourceVS(o, size)]
    /\ vsc' = [vsc EXCEPT ![ContentNameOf(o)] = SourceVSC(o, retakes')]
    /\ consec' = [consec EXCEPT ![o] = 0]
    /\ UNCHANGED <<owners, requests, listed, param, pvc, pod, pc, loc, calls, last, prevStore,
                   ncalls, ctxDone>>

\* The volume controller binds the intermediate claim to a volume.
ClaimBecomesBound(o) ==
    /\ o \in owners
    /\ Exists(pvc[o])
    /\ pvc[o].phase = "Pending"
    /\ Exists(vs[o])
    /\ pvc' = [pvc EXCEPT ![o].phase = "Bound", ![o].volumeName = <<"pv", o>>]
    /\ UNCHANGED <<owners, requests, listed, param, vs, vsc, pod, pc, loc, calls, last,
                   prevStore, consec, ncalls, retakes, ctxDone>>

\* The hosting pod fails for good (crash loop, scheduling failure).
PodBecomesUnrecoverable(o) ==
    /\ o \in owners
    /\ Exists(pod[o])
    /\ ~pod[o].unrecoverable
    /\ pod' = [pod EXCEPT ![o].unrecoverable = TRUE]
    /\ UNCHANGED <<owners, requests, listed, param, vs, vsc, pvc, pc, loc, calls, last,
                   prevStore, consec, ncalls, retakes, ctxDone>>

\* The scheduler assigns the hosting pod to a node.
PodScheduled(o) ==
    /\ o \in owners
    /\ Exists(pod[o])
    /\ pod[o].nodeName = ""
    /\ pod' = [pod EXCEPT ![o].nodeName = "node-1"]
    /\ UNCHANGED <<owners, requests, listed, param, vs, vsc, pvc, pc, loc, calls, last,
                   prevStore, consec, ncalls, retakes, ctxDone>>

\* The snapshot controller binds the derived snapshot to the derived content.
DerivedSnapshotBound(o) ==
    /\ o \in owners
    /\ Exists(vs[o])
    /\ vs[o].bound = ""
    /\ Exists(vsc[o])
    /\ vs' = [vs EXCEPT ![o].bound = o, ![o].ready = TRUE]
    /\ UNCHANGED <<owners, requests, listed, param, vsc, pvc, pod, pc, loc, calls, last,
                   prevStore, consec, ncalls, retakes, ctxDone>>

\* The positions of Expose at which a blocking call is about to be made.
ExposeInFlight ==
    {"getVSC", "createVS", "createVSC", "retain", "deleteVS", "deleteVSC",
     "createPVC", "getPodInfo", "createPod", "defers"}

\* The deadline of the caller's context expires while Expose is in flight.
DeadlineExpires(o) ==
    /\ o \in owners
    /\ pc[o] \in ExposeInFlight
    /\ pc[o] = "defers" => (loc[o].defers # <<>> /\ DeferFires(loc[o]))
    /\ ~ctxDone[o]
    /\ ctxDone' = [ctxDone EXCEPT ![o] = TRUE]
    /\ UNCHANGED <<owners, requests, listed, param, vs, vsc, pvc, pod, pc, loc, calls, last,
                   prevStore, consec, ncalls, retakes>>

\* ------------------------------------------------------------------- Next

Next ==
    \E o \in AllOwners :
       \/ ExposeWaitReady(o)
       \/ ExposeGetVSC(o)
       \/ ExposeCreateVS(o)
       \/ ExposeCreateVSC(o)
       \/ ExposeRetainVSC(o)
       \/ ExposeDeleteVS(o)
       \/ ExposeDeleteVSC(o)
       \/ ExposeCreatePVC(o)
       \/ ExposeGetPodInfo(o)
       \/ ExposeCreatePod(o)
       \/ ExposeRunDefer(o)
       \/ ExposeReturn(o)
       \/ GetExposedGetPod(o)
       \/ GetExposedWaitBound(o)
       \/ PeekExposed(o)
       \/ CleanUpPod(o)
       \/ CleanUpPVC(o)
       \/ CleanUpVS(o)
       \/ CleanUpSourceVS(o)
       \/ SnapshotBecomesReady(o)
       \/ RetakeSnapshot(o)
       \/ ClaimBecomesBound(o)
       \/ PodBecomesUnrecoverable(o)

Spec == Init /\ [][Next]_vars

\* ----------------------------------------------- further specifications

\* The parameters of the specifications below.
SmallParamSet ==
    {DefaultParam,
     [DefaultParam EXCEPT !.AccessMode = "by-other"],
     [DefaultParam EXCEPT !.NodeOS = NodeOSWindows,
                          !.BackupPVCConfig = {<<SourceStorageClass,
                              [StorageClass |-> "sc-remap", ReadOnly |-> TRUE,
                               SPCNoRelabeling |-> TRUE]>>}]}

\* Every operation of the exposer, the controllers of the cluster, and the
\* deadline of the caller.
NextAll ==
    \/ Next
    \/ \E o \in AllOwners :
          \/ DiagnoseGetPod(o)
          \/ DiagnoseGetPVC(o)
          \/ DiagnoseGetVS(o)
          \/ DiagnosePod(o)
          \/ DiagnosePVC(o)
          \/ DiagnoseVS(o)
          \/ PodScheduled(o)
          \/ DerivedSnapshotBound(o)
          \/ DeadlineExpires(o)

InitAll ==
    /\ InitWith({"o1"}, SmallParamSet)
    /\ vs[SnapshotNameOf("o1")].restoreSize = <<12>>

SpecAll == InitAll /\ [][NextAll]_vars

\* Two owners with different names and different source snapshots, each
\* snapshot reporting its restore size.
InitTwo ==
    /\ InitWith({"o1", "o2"}, {DefaultParam})
    /\ \A o \in owners : vs[SnapshotNameOf(o)].restoreSize = <<12>>

SpecTwo == InitTwo /\ [][Next]_vars

\* A call of Expose, GetExposed or CleanUp of owner o in flight takes its
\* next step.
CallStep(o) ==
    \/ ExposeGetVSC(o)
    \/ ExposeCreateVS(o)
    \/ ExposeCreateVSC(o)
    \/ ExposeRetainVSC(o)
    \/ ExposeDeleteVS(o)
    \/ ExposeDeleteVSC(o)
    \/ ExposeCreatePVC(o)
    \/ ExposeGetPodInfo(o)
    \/ ExposeCreatePod(o)
    \/ ExposeRunDefer(o)
    \/ ExposeReturn(o)
    \/ GetExposedWaitBound(o)
    \/ CleanUpPVC(o)
    \/ CleanUpVS(o)
    \/ CleanUpSourceVS(o)

\* A call in flight runs on: its goroutine is scheduled again and again, and
\* each blocking call it makes ends, with a result or with its timeout.  No
\* fairness is assumed of the callers or of the controllers of the cluster.
InitFair == InitWith({"o1"}, {DefaultParam})

\* The calls that wait (Expose, GetExposed, CleanUp) and PeekExposed, the
\* controllers of the cluster, and the deadline of the caller.
NextFair ==
    \/ Next
    \/ \E o \in AllOwners :
          \/ PodScheduled(o)
          \/ DerivedSnapshotBound(o)
          \/ DeadlineExpires(o)

SpecFair == InitFair /\ [][NextFair]_vars /\ \A o \in AllOwners : WF_vars(CallStep(o))

\* The DeleteBackupRequest part of the repository: requests built by
\* NewDeleteBackupRequest are stored in the fake client, changed and removed
\* there, and listed with the options of NewDeleteBackupRequestListOptions.

exposerVars == <<owners, param, vs, vsc, pvc, pod, pc, loc, calls, last,
                 prevStore, consec, ncalls, retakes, ctxDone>>

\* The most requests the fake client holds at a time.
MaxRequests == 2

\* The names callers give the requests they create: none, as
\* NewDeleteBackupRequest leaves it, or one of two names.
RequestNames == {<<>>, <<"r", "1">>, <<"r", "2">>}

\* Requests that NewDeleteBackupRequest does not build: for backup n without
\* labels, and for backup n under the label of another backup.
OtherRequests(n) ==
    {[NewDeleteBackupRequest(n) EXCEPT !.Labels = {}]}
    \cup {[NewDeleteBackupRequest(n) EXCEPT !.Labels = {<<BackupNameLabel, m>>}] :
             m \in {<<"b", "1">>, <<"b", "2">>} \ {n}}

\* The position in reqs of the request of this name, or 0.
IndexOfRequest(reqs, name) ==
    IF \E i \in 1..Len(reqs) : reqs[i].Name = name
    THEN CHOOSE i \in 1..Len(reqs) : reqs[i].Name = name
    ELSE 0

\* The requests reqs without the one at position i.
RemoveAt(reqs, i) == [k \in 1..(Len(reqs) - 1) |-> IF k < i THEN reqs[k] ELSE reqs[k + 1]]

\* Fake.Invokes with the object tracker behind it: the requests held after
\* the action.  A create keeps the object as it is given, under its name,
\* unless a request of the name is held; an update puts the object in the
\* place of the held one of its name; a delete removes the held one of the
\* name.  The tracker has no reaction to any other verb, and a call that
\* fails leaves the requests as they are.
Invokes(action, reqs) ==
    LET at == IndexOfRequest(reqs, action.name)
    IN CASE action.verb = "create" ->
               IF at = 0 THEN Append(reqs, action.object) ELSE reqs
         [] action.verb = "update" ->
               IF at = 0 THEN reqs ELSE [reqs EXCEPT ![at] = action.object]
         [] action.verb = "delete" ->
               IF at = 0 THEN reqs ELSE RemoveAt(reqs, at)
         [] OTHER -> reqs

\* testing.NewCreateAction, NewUpdateAction and NewUpdateSubresourceAction:
\* the verb, the subresource and the object, with the name of the object.
ObjectAction(verb, subresource, object) ==
    [verb |-> verb, subresource |-> subresource, name |-> object.Name,
     object |-> object]

\* FakeDeleteBackupRequests.Create of the request NewDeleteBackupRequest(n)
\* builds, under the name the caller gave it or under none: the create
\* action with the object goes to Invokes.
CreateRequest(n) ==
    /\ Len(requests) < MaxRequests
    /\ \E name \in RequestNames :
          LET r == [NewDeleteBackupRequest(n) EXCEPT !.Name = name]
          IN requests' = Invokes(ObjectAction("create", "", r), requests)
    /\ listed' = NotListed
    /\ UNCHANGED exposerVars

\* FakeDeleteBackupRequests.Create of a request built by other means.
CreateOtherRequest(n) ==
    /\ Len(requests) < MaxRequests
    /\ n \in {<<"b", "1">>, <<"b", "2">>}
    /\ \E r \in OtherRequests(n), name \in RequestNames :
          requests' = Invokes(ObjectAction("create", "", [r EXCEPT !.Name = name]),
                              requests)
    /\ listed' = NotListed
    /\ UNCHANGED exposerVars

\* FakeDeleteBackupRequests.List with the options
\* NewDeleteBackupRequestListOptions(n) builds: Invokes hands back the stored
\* list, or nothing and the error of a reactor.
ListRequests(n) ==
    /\ LET opts == NewDeleteBackupRequestListOptions(n)
       IN \/ listed' = List(opts, requests)
          \/ listed' = [outcome |-> "error", opts |-> opts, store |-> <<>>,
                        items |-> <<>>]
    /\ UNCHANGED <<exposerVars, requests>>

\* FakeDeleteBackupRequests.Update with a held request whose labels the
\* caller has set to the backup-name label of n or taken away: the update
\* action with the object goes to Invokes.
UpdateRequest(n) ==
    /\ n \in {<<"b", "1">>, <<"b", "2">>}
    /\ \E i \in 1..Len(requests), lbls \in {{<<BackupNameLabel, n>>}, {}} :
          requests' = Invokes(ObjectAction("update", "",
                                           [requests[i] EXCEPT !.Labels = lbls]),
                              requests)
    /\ listed' = NotListed
    /\ UNCHANGED exposerVars

\* FakeDeleteBackupRequests.UpdateStatus with a held request whose phase the
\* caller has set to "Processed": the update action on the subresource
\* "status" with the object goes to Invokes.
UpdateRequestStatus ==
    /\ \E i \in 1..Len(requests) :
          requests' = Invokes(ObjectAction("update", "status",
                                           [requests[i] EXCEPT !.Phase = "Processed"]),
                              requests)
    /\ listed' = NotListed
    /\ UNCHANGED exposerVars

\* FakeDeleteBackupRequests.Delete by name: the delete action with the name
\* goes to Invokes; the delete options do not.
DeleteRequest ==
    /\ \E name \in RequestNames :
          requests' = Invokes([verb |-> "delete", subresource |-> "", name |-> name],
                              requests)
    /\ listed' = NotListed
    /\ UNCHANGED exposerVars

\* FakeDeleteBackupRequests.DeleteCollection with the list options
\* NewDeleteBackupRequestListOptions(n) builds: the delete-collection action
\* with the options goes to Invokes, and nothing else is done; the method
\* neither parses the selector nor removes a request.
DeleteRequestCollection(n) ==
    /\ requests' = Invokes([verb |-> "delete-collection", subresource |-> "",
                            name |-> <<>>,
                            opts |-> NewDeleteBackupRequestListOptions(n)],
                           requests)
    /\ listed' = NotListed
    /\ UNCHANGED exposerVars

\* FakeDeleteBackupRequests.Patch of the request of a name with data that
\* set the backup-name label to n: the patch action with the name and the
\* data goes to Invokes, the patch type does not, and the method applies
\* nothing.
PatchRequest(n) ==
    /\ n \in {<<"b", "1">>, <<"b", "2">>}
    /\ \E name \in RequestNames :
          requests' = Invokes([verb |-> "patch", subresource |-> "", name |-> name,
                               data |-> {<<BackupNameLabel, n>>}],
                              requests)
    /\ listed' = NotListed
    /\ UNCHANGED exposerVars

NextRequests ==
    \/ \E n \in BackupNames :
          \/ CreateRequest(n)
          \/ CreateOtherRequest(n)
          \/ ListRequests(n)
          \/ UpdateRequest(n)
          \/ DeleteRequestCollection(n)
          \/ PatchRequest(n)
    \/ UpdateRequestStatus
    \/ DeleteRequest

InitRequests == InitWith({}, {DefaultParam})

SpecRequests == InitRequests /\ [][NextRequests]_vars

\* ----------------------------------------------------------------- claims

\* The last/current call of owner o issued store call op with this outcome.
Issued(o, op, outcome) ==
    \E i \in 1..Len(calls[o]) : calls[o][i].op = op /\ calls[o][i].outcome = outcome

\* Expose of owner o has returned, and no later call of o has started.
ExposeReturned(o) == pc[o] = "idle" /\ last[o].op = "Expose"

\* C1: Rollback completeness.  Once Expose has returned an error after having
\* created the Derived Snapshot, no Derived Snapshot, Intermediate Claim or
\* Hosting Pod named after the owner is in the store, and a Derived Content
\* that the call created is still there.  This is to hold for every point
\* at which Expose can fail after the Derived Snapshot was created, a step
\* cut short by the expiry of the caller's deadline among them: the deferred
\* deletes are then made with the context that has expired.
C1_RollbackComplete ==
    \A o \in owners :
       (ExposeReturned(o) /\ last[o].err # NilErr /\ Issued(o, "createVS", "ok"))
       => /\ ~Exists(vs[o])
          /\ ~Exists(pvc[o])
          /\ ~Exists(pod[o])
          /\ Issued(o, "createVSC", "ok") => Exists(vsc[o])

\* C2: Retain safety.  In every run of Expose a delete of the source snapshot
\* or of the source content is issued only after the retain call on the
\* source content returned successfully; after a failed retain no such
\* delete is issued; and while the deletes are pending the source content
\* has deletion policy Retain.
C2_RetainBeforeDelete ==
    \A o \in owners :
       /\ \A i \in 1..Len(calls[o]) :
             calls[o][i].op \in {"deleteVS", "deleteVSC"}
             => \E j \in 1..(i - 1) :
                   calls[o][j] = Call("retainVSC", ContentNameOf(o), "ok")
       /\ Issued(o, "retainVSC", "error")
             => ~(Issued(o, "deleteVS", "ok") \/ Issued(o, "deleteVS", "error")
                  \/ Issued(o, "deleteVSC", "ok") \/ Issued(o, "deleteVSC", "error"))
       /\ pc[o] \in {"deleteVS", "deleteVSC"}
             => vsc[ContentNameOf(o)].policy = VolumeSnapshotContentRetain

\* C2 witness: the source content has been deleted after a successful retain.
C2_Witness ==
    /\ Issued("o1", "retainVSC", "ok") /\ Issued("o1", "deleteVSC", "ok")
    /\ ~Exists(vsc[ContentNameOf("o1")])

\* C3: every Derived Content created by Expose has deletion policy Retain, carries the driver and the snapshot handle of
\* the source content and references the Derived Snapshot of the same call.
C3_Original ==
    \A o \in owners :
       Exists(loc[o].backupVSC)
       => /\ vsc[o].policy = VolumeSnapshotContentRetain
          /\ vsc[o].driver = loc[o].vsc.driver
          /\ vsc[o].handle = loc[o].vsc.handle
          /\ vsc[o].snapshotRef = loc[o].backupVS.name

\* CleanUp of owner o has returned and nothing has happened to o since.
CleanUpReturned(o) == pc[o] = "idle" /\ last[o].op = "CleanUp" /\ consec[o] >= 1

\* No object of the exposure of owner o is left that CleanUp is to remove.
NoResidue(o) ==
    /\ ~Exists(pod[o])
    /\ ~Exists(pvc[o])
    /\ ~Exists(vs[o])
    /\ ~Exists(vs[SnapshotNameOf(o)])

\* C4: CleanUp is safe from any state.  After any outcome of Expose followed
\* by CleanUp, the store holds no Hosting Pod, Intermediate Claim or Derived
\* Snapshot named after the owner and no snapshot with the source name; all
\* four deletions are attempted, in order, whether or not a target is absent.
C4_CleanUpFromAnyState ==
    \A o \in owners :
       CleanUpReturned(o)
       => /\ NoResidue(o)
          /\ Len(calls[o]) = 4
          /\ calls[o][1].op = "deletePodIfAny" /\ calls[o][1].target = o
          /\ calls[o][2].op = "deletePVCIfAny" /\ calls[o][2].target = o
          /\ calls[o][3].op = "deleteVSIfAny" /\ calls[o][3].target = o
          /\ calls[o][4].op = "deleteVSIfAny"
          /\ calls[o][4].target = SnapshotNameOf(o)

\* C4 witness: CleanUp found no pod to delete, went on, and deleted the
\* source snapshot that was there.
C4_Witness ==
    /\ CleanUpReturned("o1")
    /\ calls["o1"][1].outcome = "notFound"
    /\ calls["o1"][4].outcome = "ok"
    /\ NoResidue("o1")

\* This step is a step of a call of owner o.
StepOf(o) == <<pc[o], loc[o], ncalls[o]>>' # <<pc[o], loc[o], ncalls[o]>>

\* This step is one of a CleanUp of o.
CleanUpStep(o) ==
    /\ StepOf(o)
    /\ \/ pc[o] \in {"cleanPVC", "cleanVS", "cleanSourceVS"}
       \/ pc'[o] = "cleanPVC"

\* C5 as the specification states it: CleanUp reports no error; after a
\* second CleanUp in a row the objects of the exposure are what they were
\* after the first, and no object of the exposure is left, the Derived
\* Content included.
C5_Original ==
    \A o \in owners :
       CleanUpReturned(o)
       => /\ last[o].err = NilErr
          /\ NoResidue(o) /\ ~Exists(vsc[o])
          /\ consec[o] = 2 => OwnStore(o) = prevStore[o]

\* C5 amended: CleanUp reports no error; after a second CleanUp in a row the
\* objects of the exposure are what they were after the first; no Hosting
\* Pod, Intermediate Claim or Derived Snapshot of the owner and no snapshot
\* of the source name is left, while a Derived Content that Expose created,
\* which CleanUp does not delete, is still in the store.
C5_CleanUpIdempotent ==
    /\ [](\A o \in owners :
            CleanUpReturned(o)
            => /\ last[o].err = NilErr
               /\ NoResidue(o)
               /\ consec[o] = 2 => OwnStore(o) = prevStore[o])
    /\ [][\A o \in owners : CleanUpStep(o) => vsc' = vsc]_vars

\* C5 witness: two CleanUp calls in a row have returned, the first of them
\* after a successful Expose.
C5_Witness ==
    /\ CleanUpReturned("o1")
    /\ consec["o1"] = 2
    /\ Exists(vsc["o1"])
    /\ \A i \in 1..Len(calls["o1"]) : calls["o1"][i].outcome = "notFound"

\* GetExposed of owner o has returned, and no later call of o has started.
GetExposedReturned(o) == pc[o] = "idle" /\ last[o].op = "GetExposed"

\* C6: GetExposed distinguishes absence from failure.  A not-found lookup of
\* the Hosting Pod gives (nil, nil) without a wait on the claim; a lookup
\* that fails otherwise gives (nil, error).
C6_AbsenceIsNotFailure ==
    \A o \in owners :
       GetExposedReturned(o)
       => /\ calls[o][1].op = "getPod"
          /\ calls[o][1].outcome = "notFound"
                => /\ last[o].err = NilErr
                   /\ ~Exists(last[o].result)
                   /\ Len(calls[o]) = 1
          /\ calls[o][1].outcome = "error"
                => /\ last[o].err # NilErr
                   /\ ~Exists(last[o].result)
                   /\ Len(calls[o]) = 1

\* C6 witness: GetExposed returned (nil, nil) for an owner with no pod.
C6_Witness ==
    /\ GetExposedReturned("o1")
    /\ calls["o1"] = <<Call("getPod", "o1", "notFound")>>
    /\ last["o1"].err = NilErr
    /\ ~Exists(pod["o1"])

\* C7: GetExposed returns a result only if the Intermediate Claim was seen
\* bound during the call; when the pod is found and the wait for the claim
\* fails, it returns a nil result and an error.
C7_ResultOnlyWhenBound ==
    \A o \in owners :
       GetExposedReturned(o)
       => /\ Exists(last[o].result)
                => /\ Issued(o, "waitPVCBound", "ok")
                   /\ Exists(pvc[o]) /\ pvc[o].phase = "Bound"
                   /\ last[o].err = NilErr
          /\ (Issued(o, "getPod", "ok") /\ ~Issued(o, "waitPVCBound", "ok"))
                => /\ ~Exists(last[o].result)
                   /\ last[o].err # NilErr

\* C7 witness: the pod was found and the claim was not bound in time.
C7_Witness ==
    /\ GetExposedReturned("o1")
    /\ Issued("o1", "getPod", "ok")
    /\ Issued("o1", "waitPVCBound", "error")
    /\ Exists(pvc["o1"]) /\ pvc["o1"].phase = "Pending"
    /\ last["o1"].err # NilErr

\* C8: PeekExposed returns an error if and only if the Hosting Pod was fetched
\* successfully and is classified unrecoverable; a pod that is not found, or
\* a fetch that fails otherwise, gives no error.
C8_PeekErrorIffUnrecoverable ==
    [][\A o \in owners :
          (ncalls'[o] = ncalls[o] + 1 /\ last'[o].op = "PeekExposed" /\ pc'[o] = "idle")
          => /\ Len(calls'[o]) = 1 /\ calls'[o][1].op = "getPod"
             /\ last'[o].err # NilErr
                   <=> /\ calls'[o][1].outcome = "ok"
                       /\ Exists(pod[o])
                       /\ pod[o].unrecoverable]_vars

\* C8 witness: PeekExposed has reported an unrecoverable pod.
C8_Witness ==
    /\ pc["o1"] = "idle" /\ last["o1"].op = "PeekExposed"
    /\ last["o1"].err # NilErr
    /\ calls["o1"] = <<Call("getPod", "o1", "ok")>>
    /\ pod["o1"].unrecoverable

\* C9: Volume size fallback.  The storage request of the Intermediate Claim
\* that Expose creates is the restore size the source snapshot reported when
\* that size is present and not zero, and the caller's VolumeSize otherwise.
C9_VolumeSizeFallback ==
    \A o \in owners :
       LET size == loc[o].volumeSnapshot.restoreSize IN
       /\ pc[o] = "createPod" => Exists(loc[o].backupPVC) /\ Exists(pvc[o])
       /\ (Exists(loc[o].backupPVC) /\ Exists(pvc[o]))
          => /\ (size # <<>> /\ size # <<0>>) => pvc[o].request = size[1]
             /\ (size = <<>> \/ size = <<0>>) => pvc[o].request = param[o].VolumeSize

\* C9 witness: the snapshot reported a zero restore size and the claim asks
\* for the caller's size.
C9_Witness ==
    /\ pc["o1"] = "createPod"
    /\ Exists(loc["o1"].backupPVC)
    /\ loc["o1"].volumeSnapshot.restoreSize = <<0>>
    /\ pvc["o1"].request = param["o1"].VolumeSize

\* The remap table of owner o has an entry for the source storage class with
\* ReadOnly set / with SPCNoRelabeling set.
EntryReadOnly(o) ==
    \E e \in param[o].BackupPVCConfig : e[1] = param[o].StorageClass /\ e[2].ReadOnly
EntrySkipRelabel(o) ==
    \E e \in param[o].BackupPVCConfig :
       e[1] = param[o].StorageClass /\ e[2].SPCNoRelabeling

\* The Hosting Pod p has the relabel-skip treatment.
RelabelSkipped(p) == p.securityContext.SELinuxType = "spc_t"

\* The access mode of the Intermediate Claim follows the ReadOnly flag.
ClaimModeFollowsReadOnly(o) ==
    Exists(pvc[o])
    => pvc[o].accessModes =
          IF EntryReadOnly(o) THEN <<ReadOnlyMany>> ELSE <<ReadWriteOnce>>

\* C10 as the specification states it: the claim is read-only-many exactly
\* when the entry has ReadOnly set, and the relabel-skip treatment is applied
\* exactly when the entry has both ReadOnly and SkipRelabel set.
C10_Original ==
    \A o \in owners :
       /\ ClaimModeFollowsReadOnly(o)
       /\ Exists(pod[o])
          => (RelabelSkipped(pod[o]) <=> (EntryReadOnly(o) /\ EntrySkipRelabel(o)))

\* C10 amended: the claim is read-only-many exactly when the entry has
\* ReadOnly set and read-write-once otherwise; the relabel-skip treatment is
\* applied exactly when the entry has both ReadOnly and SkipRelabel set and
\* the requested node OS is not windows, and never when ReadOnly is unset.
C10_AccessModePrecedence ==
    \A o \in owners :
       /\ ClaimModeFollowsReadOnly(o)
       /\ Exists(pod[o])
          => /\ RelabelSkipped(pod[o])
                   <=> /\ EntryReadOnly(o) /\ EntrySkipRelabel(o)
                       /\ param[o].NodeOS # NodeOSWindows
             /\ (EntrySkipRelabel(o) /\ ~EntryReadOnly(o)) => ~RelabelSkipped(pod[o])

\* C10 witness: a Hosting Pod with the relabel-skip treatment on a read-only
\* claim.
C10_Witness ==
    /\ Exists(pod["o1"]) /\ RelabelSkipped(pod["o1"])
    /\ pvc["o1"].accessModes = <<ReadOnlyMany>>
    /\ EntryReadOnly("o1") /\ EntrySkipRelabel("o1")

\* The entries of owner o's remap table for the source storage class.
EntriesForSource(o) ==
    {e[2] : e \in {x \in param[o].BackupPVCConfig : x[1] = param[o].StorageClass}}

\* C11 (storage-class remap): the storage class of the Intermediate Claim is
\* the remap entry's storage class when the table has an entry for the source
\* storage class with a non-empty storage class, and the source storage
\* class when there is no such entry or the entry's storage class is empty.
C11_StorageClassRemap ==
    \A o \in owners :
       Exists(pvc[o]) =>
          /\ \A e \in EntriesForSource(o) :
                e.StorageClass # "" => pvc[o].storageClass = e.StorageClass
          /\ (\A e \in EntriesForSource(o) : e.StorageClass = "")
                => pvc[o].storageClass = param[o].StorageClass

\* C11 witness: a claim created with the storage class of the remap entry.
C11_Witness ==
    /\ Exists(pvc["o1"])
    /\ \E e \in EntriesForSource("o1") : e.StorageClass = "sc-remap"
    /\ pvc["o1"].storageClass = "sc-remap"
    /\ pvc["o1"].storageClass # param["o1"].StorageClass

\* The store calls that take the name of the object from the owner.
OwnerNamedOps ==
    {"createVS", "createVSC", "createPVC", "createPod", "getPod", "getPVC",
     "getVS", "waitPVCBound", "deletePodIfAny", "deletePVCIfAny"}

\* Call i of the log of owner o addresses an object of the exposure by the
\* owner's name; the only other names are the source snapshot and content
\* the caller hands in, the node-agent, and, in DiagnoseExpose, the
\* dependent named by an object fetched in the same call.
AddressedByOwner(o, i) ==
    LET c == calls[o][i] IN
    /\ c.op \in OwnerNamedOps => c.target = o
    /\ c.op = "deleteVSIfAny" =>
          \/ c.target = o
          \/ c.target = SnapshotNameOf(o) /\ i = 4 /\ calls[o][1].op = "deletePodIfAny"
    /\ c.op \in {"waitVSReady", "deleteVS"} => c.target = SnapshotNameOf(o)
    /\ c.op \in {"getVSC", "retainVSC", "deleteVSC"} => c.target = ContentNameOf(o)
    /\ c.op = "getPodInfo" => c.target = "node-agent"
    /\ (c.op = "isRunningInNode" /\ Exists(pod[o])) => c.target = pod[o].nodeName
    /\ (c.op = "getPV" /\ Exists(pvc[o])) => c.target = pvc[o].volumeName
    /\ (c.op = "getBoundVSC" /\ Exists(vs[o])) => c.target = vs[o].bound

\* C12 (deterministic naming): every Hosting Pod, Intermediate Claim, Derived
\* Snapshot and Derived Content that Expose creates for owner X is named X;
\* GetExposed, PeekExposed, DiagnoseExpose and CleanUp address the objects of
\* the exposure only by X; and no call leaves local state behind: between
\* calls the exposer holds nothing about the owner.
C12_DeterministicNaming ==
    \A o \in owners :
       /\ \A i \in 1..Len(calls[o]) : AddressedByOwner(o, i)
       /\ \A x \in {loc[o].backupVS, loc[o].backupVSC, loc[o].backupPVC} :
             Exists(x) => x.name = o
       /\ \A x \in {vs[o], vsc[o], pvc[o], pod[o]} : Exists(x) => x.name = o
       /\ pc[o] = "idle" => loc[o] = EmptyLoc

\* C12 witness: all four objects of the exposure exist under the owner's
\* name and DiagnoseExpose has looked up each of them and each dependent.
C12_Witness ==
    /\ pc["o1"] = "idle" /\ last["o1"].op = "DiagnoseExpose"
    /\ \A x \in {vs["o1"], vsc["o1"], pvc["o1"], pod["o1"]} :
          Exists(x) /\ x.name = "o1"
    /\ Len(calls["o1"]) = 6
    /\ \A i \in 1..3 : calls["o1"][i].target = "o1" /\ calls["o1"][i].outcome = "ok"

\* The store calls of the steps of Expose, in the order of the code.
ExposeStepOrder ==
    <<"waitVSReady", "getVSC", "createVS", "createVSC", "retainVSC", "deleteVS",
      "deleteVSC", "createPVC", "getPodInfo", "createPod">>

\* Those of them that write to the store.
ExposeWrites ==
    {"createVS", "createVSC", "retainVSC", "deleteVS", "deleteVSC", "createPVC",
     "createPod"}

IsExposeStep(c) == \E k \in 1..Len(ExposeStepOrder) : ExposeStepOrder[k] = c.op

\* The calls of the steps of the current/last call of owner o, as issued.
ExposeStepsOf(o) == SelectSeq(calls[o], IsExposeStep)

\* The log of owner o is the log of an Expose call.
InExposeLog(o) == calls[o] # <<>> /\ calls[o][1].op = "waitVSReady"

\* C13 (strict step order in Expose): in every run the store writes are
\* issued in the order create Derived Snapshot, create Derived Content,
\* retain source content, delete source snapshot, delete source content,
\* create Intermediate Claim, create Hosting Pod - the k-th step call issued
\* is the k-th step of the code - and a call is issued only if every earlier
\* step of the same call succeeded; a compensating delete never comes before
\* a step.
C13_StrictStepOrder ==
    \A o \in owners :
       InExposeLog(o) =>
          LET steps == ExposeStepsOf(o) IN
          /\ \A k \in 1..Len(steps) :
                /\ steps[k].op = ExposeStepOrder[k]
                /\ \A j \in 1..(k - 1) : steps[j].outcome = "ok"
          /\ \A i \in 1..Len(steps) : calls[o][i] = steps[i]
          /\ \A w \in ExposeWrites :
                Cardinality({i \in 1..Len(calls[o]) : calls[o][i].op = w}) <= 1

\* C13 witness: a run of Expose that issued all seven writes, in order.
C13_Witness ==
    /\ ExposeReturned("o1") /\ last["o1"].err = NilErr
    /\ Len(ExposeStepsOf("o1")) = Len(ExposeStepOrder)
    /\ \A w \in ExposeWrites : Issued("o1", w, "ok")

\* The compensating deletes of Expose.
CompensationOps == {"deleteVSIfAny", "deletePVCIfAny", "deletePodIfAny"}

\* This step is a step of an Expose call of owner o at one of its first three
\* steps: the wait for the source snapshot (which starts the call), the
\* lookup of the source content, or the creation of the Derived Snapshot.
ExposeEarlyStep(o) ==
    \/ /\ ncalls'[o] = ncalls[o] + 1
       /\ \/ pc'[o] = "getVSC"
          \/ pc'[o] = "idle" /\ last'[o].op = "Expose"
    \/ pc[o] = "getVSC" /\ pc'[o] # "getVSC"
    \/ pc[o] = "createVS" /\ pc'[o] # "createVS"

\* Expose of owner o has returned an error from one of its first three steps.
ExposeFailedEarly(o) ==
    /\ ExposeReturned(o) /\ last[o].err # NilErr
    /\ ~Issued(o, "createVS", "ok")

\* C14 (early failure): if Expose fails while waiting for the source snapshot
\* to become ready, while resolving the source content, or while creating
\* the Derived Snapshot, it returns the error without issuing any
\* compensation and without having created, modified or deleted any object:
\* none of its steps up to the failure changes the store, no call of it
\* succeeded in writing, and its locals hold no deferred function.
C14_EarlyFailureFrame ==
    /\ [][\A o \in owners :
            (ExposeEarlyStep(o) /\ pc'[o] # "createVSC")
            => /\ <<vs, vsc, pvc, pod>>' = <<vs, vsc, pvc, pod>>
               /\ loc'[o].defers = <<>>]_vars
    /\ [](\A o \in owners :
            ExposeFailedEarly(o) =>
               \A i \in 1..Len(calls[o]) :
                  /\ calls[o][i].op \notin CompensationOps
                  /\ calls[o][i].op \in ExposeWrites => calls[o][i].outcome # "ok"
                  /\ calls[o][i].op \in {"waitVSReady", "getVSC", "createVS"})

\* C14 witness: Expose failed at the creation of the Derived Snapshot.
C14_Witness ==
    /\ ExposeReturned("o1") /\ last["o1"].err # NilErr
    /\ Issued("o1", "createVS", "error")
    /\ Len(calls["o1"]) = 3

\* The Hosting Pod step of the last Expose call of owner o failed, at the pod
\* template fetch or at the pod create, and Expose has returned.
PodStepFailed(o) ==
    /\ ExposeReturned(o)
    /\ Issued(o, "getPodInfo", "error") \/ Issued(o, "createPod", "error")

\* The current/last call of owner o issued store call op.
IssuedOp(o, op) == \E i \in 1..Len(calls[o]) : calls[o][i].op = op

\* C15 as the specification states it: when the Hosting Pod step fails, the
\* compensations that fire are deletion of the Hosting Pod, deletion of the
\* Intermediate Claim and deletion of the Derived Snapshot, and no Hosting
\* Pod named after the owner is left behind.
C15_Original ==
    \A o \in owners :
       PodStepFailed(o) =>
          /\ IssuedOp(o, "deletePodIfAny")
          /\ IssuedOp(o, "deletePVCIfAny")
          /\ IssuedOp(o, "deleteVSIfAny")
          /\ ~Exists(pod[o])

\* C15 amended: when the Hosting Pod step fails, Expose returns an error and
\* the compensations that fire are deletion of the Intermediate Claim and
\* then deletion of the Derived Snapshot, the last two calls of the run; no
\* deletion of the Hosting Pod is issued, and no Hosting Pod, Intermediate
\* Claim or Derived Snapshot named after the owner is left behind.
C15_PodStepFailure ==
    \A o \in owners :
       PodStepFailed(o) =>
          LET n == Len(calls[o]) IN
          /\ last[o].err # NilErr
          /\ calls[o][n - 1].op = "deletePVCIfAny" /\ calls[o][n - 1].target = o
          /\ calls[o][n].op = "deleteVSIfAny" /\ calls[o][n].target = o
          /\ Cardinality({i \in 1..n : calls[o][i].op \in CompensationOps}) = 2
          /\ ~IssuedOp(o, "deletePodIfAny")
          /\ ~Exists(pod[o]) /\ ~Exists(pvc[o]) /\ ~Exists(vs[o])

\* C15 witness: Expose failed at the pod create and rolled back the claim
\* and the Derived Snapshot.
C15_Witness ==
    /\ PodStepFailed("o1") /\ Issued("o1", "createPod", "error")
    /\ Issued("o1", "getPodInfo", "ok")
    /\ IssuedOp("o1", "deletePVCIfAny") /\ IssuedOp("o1", "deleteVSIfAny")
    /\ ~Exists(pod["o1"])

\* The store calls that delete a VolumeSnapshotContent.
ContentDeleteOps == {"deleteVSC"}

\* C16 (the Derived Content is never deleted by the exposer): no step of
\* Expose (its rollback included), CleanUp, GetExposed, PeekExposed or
\* DiagnoseExpose removes a Derived Content from the store, and no call that
\* deletes a content is issued on the name of a Derived Content.
C16_DerivedContentKept ==
    /\ [][\A o \in owners : Exists(vsc[o]) => Exists(vsc'[o])]_vars
    /\ [](\A o \in owners : \A i \in 1..Len(calls[o]) :
            calls[o][i].op \in ContentDeleteOps
            => calls[o][i].target \notin AllOwners)

\* C16 witness: Expose was rolled back and CleanUp and DiagnoseExpose have
\* run since, and the Derived Content is still in the store.
C16_Witness ==
    /\ Exists(vsc["o1"])
    /\ ~Exists(vs["o1"]) /\ ~Exists(pvc["o1"]) /\ ~Exists(pod["o1"])
    /\ ~Exists(vsc[ContentNameOf("o1")])
    /\ pc["o1"] = "idle" /\ last["o1"].op = "DiagnoseExpose"
    /\ ncalls["o1"] = 3

\* The names of the objects that belong to the exposure of owner o.
OwnNames(o) == {o, SnapshotNameOf(o), ContentNameOf(o)}

\* The first Expose of owner o has returned and the source snapshot has not
\* been taken again: the objects of the exposure are those that the calls of
\* that run, by their own outcomes, have left.
AsWhenAlone(o) ==
    (ExposeReturned(o) /\ ncalls[o] = 1 /\ retakes = 0) =>
       /\ last[o].err = NilErr <=> Issued(o, "createPod", "ok")
       /\ Exists(vs[o]) <=> last[o].err = NilErr
       /\ Exists(pvc[o]) <=> last[o].err = NilErr
       /\ Exists(pod[o]) <=> last[o].err = NilErr
       /\ Exists(vsc[o]) <=> Issued(o, "createVSC", "ok")
       /\ Exists(vs[SnapshotNameOf(o)]) <=> ~Issued(o, "deleteVS", "ok")
       /\ Exists(vsc[ContentNameOf(o)]) <=> ~Issued(o, "deleteVSC", "ok")

\* C17 (independence of exposures): for two owners with different names and
\* different source snapshots, under every interleaving of the steps of
\* their calls, no step of one exposure creates, modifies or deletes an
\* object of the other or touches the other's call; no call of one is issued
\* on a name of the other; and each exposure ends with the objects and the
\* result that its own run determines, as when it runs alone: Expose leaves
\* what its own calls left, CleanUp leaves no residue.
C17_Independence ==
    /\ [][\A o \in owners : \A q \in owners \ {o} :
            StepOf(o) => /\ OwnStore(q)' = OwnStore(q)
                         /\ <<pc[q], loc[q], calls[q], last[q]>>'
                               = <<pc[q], loc[q], calls[q], last[q]>>]_vars
    /\ [](\A o \in owners :
            /\ \A q \in owners \ {o} : \A i \in 1..Len(calls[o]) :
                  calls[o][i].target \notin OwnNames(q)
            /\ AsWhenAlone(o)
            /\ CleanUpReturned(o) => NoResidue(o))

\* C17 witness: the Expose calls of the two owners ran interleaved; one
\* succeeded and the other failed and was rolled back.
C17_Witness ==
    /\ ExposeReturned("o1") /\ last["o1"].err = NilErr
    /\ ExposeReturned("o2") /\ last["o2"].err # NilErr
    /\ Issued("o2", "createPVC", "ok")
    /\ Exists(pod["o1"]) /\ Exists(pvc["o1"]) /\ Exists(vs["o1"])
    /\ ~Exists(pvc["o2"]) /\ ~Exists(vs["o2"]) /\ Exists(vsc["o2"])

\* The positions of Expose after the creation of the Derived Snapshot.
AfterDerivedSnapshot == ExposeInFlight \ {"getVSC", "createVS", "defers"}

\* The last Expose of owner o called this delete helper: a delete that
\* succeeded has removed the object, and a delete failed only when the helper
\* was called after the deadline had expired.
CompensationFired(o, op, obj) ==
    /\ IssuedOp(o, op)
    /\ Issued(o, op, "ok") => ~Exists(obj)
    /\ Issued(o, op, "error") => ctxDone[o]

\* C18 (deadline expiry during Expose): when the caller's deadline expires
\* while a step after the creation of the Derived Snapshot is in flight, that
\* step returns an error without writing to the store, Expose returns an
\* error, and the compensation chain of that step fires: the deferred
\* deletion of the Derived Snapshot is called, and that of the Intermediate
\* Claim when the claim was already created.  The deletions are called with
\* the context of Expose: one called before the expiry removes its object,
\* one called after it may fail, and its failure is not reported to the
\* caller.
C18_DeadlineExpiry ==
    /\ [][\A o \in owners :
            (StepOf(o) /\ pc[o] \in AfterDerivedSnapshot /\ ctxDone[o])
            => /\ pc'[o] = "defers"
               /\ loc'[o].err # NilErr
               /\ <<vs, vsc, pvc, pod>>' = <<vs, vsc, pvc, pod>>
               /\ loc'[o].defers = loc[o].defers]_vars
    /\ [](\A o \in owners :
            (ExposeReturned(o) /\ ctxDone[o] /\ Issued(o, "createVS", "ok"))
            => /\ last[o].err # NilErr
               /\ CompensationFired(o, "deleteVSIfAny", vs[o])
               /\ Issued(o, "createPVC", "ok")
                     => CompensationFired(o, "deletePVCIfAny", pvc[o]))

\* C18 witness: the deadline expired while the Hosting Pod step was in
\* flight, and Expose called the deletion of the claim and of the Derived
\* Snapshot before it returned its error.
C18_Witness ==
    /\ ExposeReturned("o1") /\ ctxDone["o1"] /\ last["o1"].err # NilErr
    /\ Issued("o1", "createPVC", "ok") /\ Issued("o1", "createPod", "error")
    /\ IssuedOp("o1", "deletePVCIfAny") /\ IssuedOp("o1", "deleteVSIfAny")

\* This step starts Expose of owner o.
ExposeStarts(o) == ncalls'[o] = ncalls[o] + 1 /\ calls'[o][1].op = "waitVSReady"

\* GetExposed of owner o has returned, and no later call of o has started.
GetExposedDone(o) == pc[o] = "idle" /\ last[o].op = "GetExposed"

\* C19 (bounded waits): every call of Expose, GetExposed and CleanUp
\* eventually returns.  Expose returns an error when the source snapshot is
\* not ready within the exposure timeout and when a source deletion does not
\* complete within the operation timeout; GetExposed returns an error when
\* the claim is not bound within its timeout.
C19_BoundedWaits ==
    /\ \A o \in AllOwners : (pc[o] # "idle") ~> (pc[o] = "idle")
    /\ [][\A o \in owners :
            /\ (ExposeStarts(o) /\ ~(Exists(vs[SnapshotNameOf(o)])
                                     /\ vs[SnapshotNameOf(o)].ready))
               => (pc'[o] = "idle" /\ last'[o].op = "Expose" /\ last'[o].err # NilErr)
            /\ (StepOf(o) /\ pc[o] = "waitBound" /\ ~WaitPVCBound(pvc, o))
               => (pc'[o] = "idle" /\ last'[o].op = "GetExposed"
                   /\ last'[o].err # NilErr)]_vars
    /\ [](\A o \in owners :
            /\ (ExposeReturned(o) /\ (\/ Issued(o, "waitVSReady", "error")
                                      \/ Issued(o, "deleteVS", "error")
                                      \/ Issued(o, "deleteVSC", "error")))
               => last[o].err # NilErr
            /\ (GetExposedDone(o) /\ Issued(o, "waitPVCBound", "error"))
               => last[o].err # NilErr)

\* C19 witness: GetExposed gave up waiting for a claim that was not bound.
C19_Witness ==
    /\ GetExposedDone("o1") /\ Issued("o1", "waitPVCBound", "error")
    /\ last["o1"].err # NilErr
    /\ Exists(pvc["o1"]) /\ pvc["o1"].phase = "Pending"

\* This step is the return of a call of DiagnoseExpose for owner o.
DiagnoseStep(o) ==
    /\ pc[o] = "diagVS"
    /\ pc'[o] = "idle"
    /\ last'[o].op = "DiagnoseExpose"

\* The report has a line with this text about the object of this name.
HasLine(report, text, name) ==
    \E i \in 1..Len(report) : report[i].text = text /\ report[i].name = name

\* The log has a call of this operation on this name.
HasCall(log, op, name) ==
    \E i \in 1..Len(log) : log[i].op = op /\ log[i].target = name

\* C20 (DiagnoseExpose never aborts): for every combination of failing
\* lookups of the Hosting Pod, the Intermediate Claim and the Derived
\* Snapshot, all three lookups are attempted, by the owner's name, and each
\* reads the object as the store holds it at that moment; a lookup adds its
\* own error line to the report exactly when it failed; each object found is
\* followed to the dependent it names (the pod to the node-agent of its
\* node, the claim to its bound volume, the snapshot to its bound content)
\* and an object not found is not; and the call returns, with no error, one
\* report that starts with the begin marker and ends with the end marker.
C20_DiagnoseNeverAborts ==
    [][\A o \in owners :
         /\ (pc[o] = "idle" /\ pc'[o] = "diagGetPVC")
            => loc'[o].diag.pod \in {NoObj, pod[o]}
         /\ (pc[o] = "diagGetPVC" /\ pc'[o] # pc[o])
            => pc'[o] = "diagGetVS" /\ loc'[o].diag.pvc \in {NoObj, pvc[o]}
         /\ (pc[o] = "diagGetVS" /\ pc'[o] # pc[o])
            => pc'[o] = "diagPod" /\ loc'[o].diag.vs \in {NoObj, vs[o]}
         /\ DiagnoseStep(o) =>
            LET log == calls'[o]
                d == loc[o].diag
                report == last'[o].result.lines
                podFound == log[1].outcome = "ok"
                pvcFound == log[2].outcome = "ok"
                vsFound == log[3].outcome = "ok"
            IN /\ Len(log) >= 3
               /\ <<log[1].op, log[2].op, log[3].op>> = <<"getPod", "getPVC", "getVS">>
               /\ \A k \in 1..3 : log[k].target = o
               /\ podFound <=> Exists(d.pod)
               /\ pvcFound <=> Exists(d.pvc)
               /\ vsFound <=> Exists(d.vs)
               /\ ~podFound <=> HasLine(report, "error getting backup pod", o)
               /\ ~pvcFound <=> HasLine(report, "error getting backup pvc", o)
               /\ ~vsFound <=> HasLine(report, "error getting backup vs", o)
               /\ podFound <=> HasLine(report, "pod", o)
               /\ pvcFound <=> HasLine(report, "pvc", o)
               /\ vsFound <=> HasLine(report, "vs", o)
               /\ IF podFound /\ d.pod.nodeName # ""
                  THEN HasCall(log, "isRunningInNode", d.pod.nodeName)
                  ELSE \A i \in 1..Len(log) : log[i].op # "isRunningInNode"
               /\ IF pvcFound /\ d.pvc.volumeName # <<>>
                  THEN HasCall(log, "getPV", d.pvc.volumeName)
                  ELSE \A i \in 1..Len(log) : log[i].op # "getPV"
               /\ IF vsFound /\ d.vs.bound # ""
                  THEN HasCall(log, "getBoundVSC", d.vs.bound)
                  ELSE \A i \in 1..Len(log) : log[i].op # "getBoundVSC"
               /\ last'[o].err = NilErr
               /\ report[1].text = DiagBegin
               /\ report[Len(report)].text = DiagEnd
               /\ \A i \in 2..(Len(report) - 1) :
                     report[i].text \notin {DiagBegin, DiagEnd}]_vars

\* C20 witness: all three lookups failed, and the report holds the three
\* error lines between the two markers.
C20_Witness ==
    /\ pc["o1"] = "idle" /\ last["o1"].op = "DiagnoseExpose"
    /\ Len(calls["o1"]) = 3
    /\ \A k \in 1..3 : calls["o1"][k].outcome = "error"
    /\ Exists(pod["o1"]) /\ Exists(pvc["o1"]) /\ Exists(vs["o1"])
    /\ Len(last["o1"].result.lines) = 5

\* The error Expose wraps around the failure of each of its store calls.
ExposeErrorOf(op) ==
    CASE op = "waitVSReady" -> "error wait volume snapshot ready"
      [] op = "getVSC" -> "error to get volume snapshot content"
      [] op = "createVS" -> "error to create backup volume snapshot"
      [] op = "createVSC" -> "error to create backup volume snapshot content"
      [] op = "retainVSC" -> "error to retain volume snapshot content"
      [] op = "deleteVS" -> "error to delete volume snapshot"
      [] op = "deleteVSC" -> "error to delete volume snapshot content"
      [] op = "createPVC" -> "error to create backup pvc"
      [] op \in {"getPodInfo", "createPod"} -> "error to create backup pod"

\* Every step of the last Expose call of owner o was issued and succeeded.
EveryStepSucceeded(o) ==
    /\ Len(ExposeStepsOf(o)) = Len(ExposeStepOrder)
    /\ \A k \in 1..Len(ExposeStepsOf(o)) : ExposeStepsOf(o)[k].outcome = "ok"

\* The objects of a finished exposure of owner o are in the store, and the
\* source snapshot and the source content are not.
Exposed(o) ==
    /\ Exists(vs[o]) /\ Exists(vsc[o]) /\ Exists(pvc[o]) /\ Exists(pod[o])
    /\ ~Exists(vs[SnapshotNameOf(o)]) /\ ~Exists(vsc[ContentNameOf(o)])

\* C21 (first error wins): Expose returns the error of the first failing
\* step and attempts no later step: the failing call, if any, is the last
\* step call of the run and the error returned is the one of that step.  It
\* returns success if and only if every step succeeded; on success no
\* compensation is run, and when it returns success the store holds the
\* Derived Snapshot, Derived Content, Intermediate Claim and Hosting Pod
\* named after the owner while the source snapshot and content are gone.
C21_FirstErrorWins ==
    /\ [](\A o \in owners :
            ExposeReturned(o) =>
               LET steps == ExposeStepsOf(o)
                   n == Len(steps)
               IN /\ last[o].err = NilErr <=> EveryStepSucceeded(o)
                  /\ \A k \in 1..(n - 1) : steps[k].outcome = "ok"
                  /\ steps[n].outcome # "ok" => last[o].err = ExposeErrorOf(steps[n].op)
                  /\ (last[o].err # NilErr /\ steps[n].outcome = "ok")
                        => (steps[n].op = "deleteVSC"
                            /\ last[o].err = ExposeErrorOf("createPVC")
                            /\ getVolumeModeByAccessMode(param[o].AccessMode).err # NilErr)
                  /\ last[o].err = NilErr
                        => \A i \in 1..Len(calls[o]) : calls[o][i].op \notin CompensationOps)
    /\ [][\A o \in owners :
            (pc[o] = "defers" /\ pc'[o] = "idle" /\ last'[o].err = NilErr)
            => Exposed(o)']_vars

\* C21 witness: Expose returned success and the exposure is complete.
C21_Witness ==
    /\ ExposeReturned("o1") /\ last["o1"].err = NilErr
    /\ EveryStepSucceeded("o1") /\ Exposed("o1")
    /\ Len(calls["o1"]) = Len(ExposeStepOrder)

\* The caller's owner object, as Expose receives it.
OwnerObject(o) ==
    [APIVersion |-> "velero.io/v2alpha1", Kind |-> "DataUpload", Name |-> o,
     UID |-> UIDOf(o)]

\* The garbage collector removes obj when the owner object o is deleted:
\* obj has an owner reference to it.
CollectedWithOwner(obj, o) == \E r \in obj.ownerRefs : r.UID = OwnerObject(o).UID

\* The owner references of obj are one reference, to owner object o.
AnchoredTo(obj, o) ==
    /\ Cardinality(obj.ownerRefs) = 1
    /\ \A r \in obj.ownerRefs :
          /\ r.Name = OwnerObject(o).Name /\ r.UID = OwnerObject(o).UID
          /\ r.Kind = OwnerObject(o).Kind /\ r.APIVersion = OwnerObject(o).APIVersion

\* C22 (owner anchoring): every Intermediate Claim and every Hosting Pod
\* created by Expose carries an owner reference to the caller's owner object
\* (same name, UID, kind, API version), so the garbage collector removes both
\* when the owner is deleted; the Derived Snapshot carries no owner
\* reference, is not collected with the owner, and leaves the store only in
\* a rollback of Expose or in CleanUp.
C22_OwnerAnchoring ==
    /\ [](\A o \in owners :
            /\ Exists(pvc[o]) => (AnchoredTo(pvc[o], o) /\ CollectedWithOwner(pvc[o], o))
            /\ Exists(pod[o]) => (AnchoredTo(pod[o], o) /\ CollectedWithOwner(pod[o], o))
            /\ Exists(vs[o]) => (vs[o].ownerRefs = {}
                                 /\ \A q \in AllOwners : ~CollectedWithOwner(vs[o], q))
            /\ \A q \in AllOwners \ {o} :
                  /\ Exists(pvc[o]) => ~CollectedWithOwner(pvc[o], q)
                  /\ Exists(pod[o]) => ~CollectedWithOwner(pod[o], q))
    /\ [][\A o \in owners :
            (Exists(vs[o]) /\ ~Exists(vs'[o])) => pc[o] \in {"defers", "cleanVS"}]_vars

\* C22 witness: a finished exposure whose claim and pod are anchored to the
\* owner and whose Derived Snapshot is not.
C22_Witness ==
    /\ ExposeReturned("o1") /\ last["o1"].err = NilErr
    /\ AnchoredTo(pvc["o1"], "o1") /\ AnchoredTo(pod["o1"], "o1")
    /\ Exists(vs["o1"]) /\ vs["o1"].ownerRefs = {}

\* The error of GetExposed for a pod without the backup volume.
MissingBackupVolume == "backup pod doesn't have the expected backup volume"

\* C23 (the pod Expose builds is the pod GetExposed expects): for every
\* Hosting Pod created by a successful Expose for owner O, a later GetExposed
\* for O never returns the missing-backup-volume error and, once the claim is
\* bound, returns a result whose VolumeName and HostingContainer both equal
\* O's UID string and whose NodeOS is present and equals the OS of the pod's
\* node selector: windows when the requested node OS is windows, linux for
\* every other requested value.
C23_ResultMatchesPod ==
    \A o \in owners :
       GetExposedReturned(o) =>
          /\ last[o].err # MissingBackupVolume
          /\ Issued(o, "waitPVCBound", "ok") =>
                /\ last[o].err = NilErr /\ Exists(last[o].result)
                /\ last[o].result.VolumeName = UIDOf(o)
                /\ last[o].result.HostingContainer = UIDOf(o)
                /\ last[o].result.HostingPod = o
                /\ \E i \in 1..Len(pod[o].volumes) : pod[o].volumes[i] = UIDOf(o)
                /\ pod[o].container = UIDOf(o)
                /\ Len(last[o].result.NodeOS) = 1
                /\ last[o].result.NodeOS = pod[o].nodeSelector
                /\ last[o].result.NodeOS[1] = IF param[o].NodeOS = NodeOSWindows
                                              THEN NodeOSWindows ELSE NodeOSLinux

\* C23 witness: GetExposed returned the result for a pod that was requested
\* with no node OS and runs on linux.
C23_Witness ==
    /\ GetExposedReturned("o1") /\ Exists(last["o1"].result)
    /\ param["o1"].NodeOS = ""
    /\ last["o1"].result.NodeOS = <<NodeOSLinux>>
    /\ last["o1"].result.VolumeName = UIDOf("o1")

\* The number of calls of operation op in the log of owner o.
TimesIssued(o, op) == Cardinality({i \in 1..Len(calls[o]) : calls[o][i].op = op})

\* C24 (no retry on conflict): within one Expose call each create, retain
\* and delete step is issued at most once, and an already-exists answer of
\* the store to a create makes Expose leave the step with the error of that
\* step, the store unchanged.
C24_NoRetryOnConflict ==
    /\ [](\A o \in owners :
            InExposeLog(o) => \A w \in ExposeWrites : TimesIssued(o, w) <= 1)
    /\ [][\A o \in owners :
            /\ (StepOf(o) /\ pc[o] = "createVS" /\ Exists(vs[o]))
               => /\ pc'[o] = "idle" /\ last'[o].err = ExposeErrorOf("createVS")
                  /\ TimesIssued(o, "createVS")' = 1
                  /\ <<vs, vsc, pvc, pod>>' = <<vs, vsc, pvc, pod>>
            /\ (StepOf(o) /\ pc[o] = "createVSC" /\ Exists(vsc[o]))
               => /\ pc'[o] = "defers" /\ loc'[o].err = ExposeErrorOf("createVSC")
                  /\ TimesIssued(o, "createVSC")' = 1
                  /\ <<vs, vsc, pvc, pod>>' = <<vs, vsc, pvc, pod>>
            /\ (StepOf(o) /\ pc[o] = "createPVC" /\ Exists(pvc[o]))
               => /\ pc'[o] = "defers" /\ loc'[o].err = ExposeErrorOf("createPVC")
                  /\ <<vs, vsc, pvc, pod>>' = <<vs, vsc, pvc, pod>>
            /\ (StepOf(o) /\ pc[o] = "createPod" /\ Exists(pod[o]))
               => /\ pc'[o] = "defers" /\ loc'[o].err = ExposeErrorOf("createPod")
                  /\ <<vs, vsc, pvc, pod>>' = <<vs, vsc, pvc, pod>>]_vars

\* C24 witness: a second Expose for the owner met the Derived Content of the
\* first and returned the error of the content create, issued once.
C24_Witness ==
    /\ ExposeReturned("o1") /\ ncalls["o1"] = 2
    /\ last["o1"].err = ExposeErrorOf("createVSC")
    /\ Issued("o1", "createVSC", "error") /\ TimesIssued("o1", "createVSC") = 1
    /\ Exists(vsc["o1"])

\* The flags of a command line, in order.
FlagsOf(args) == [i \in 1..Len(args) |-> args[i][1]]

\* C25 (hosting-pod command line): the container arguments of every Hosting
\* Pod are, in this order, --volume-path, --volume-mode, --data-upload and
\* --resource-timeout followed by the inherited log-format and log-level
\* flags; --data-upload is the owner name, --resource-timeout the operation
\* timeout, and --volume-mode the claim's volume mode (Filesystem or Block,
\* Filesystem when the claim has none), which is the mode derived from the
\* requested access mode.
C25_PodCommandLine ==
    /\ \A m \in {"", PersistentVolumeFilesystem, PersistentVolumeBlock} :
          PodVolumeMode([volumeMode |-> m])
             = IF m = "" THEN PersistentVolumeFilesystem ELSE m
    /\ \A o \in owners :
          Exists(pod[o]) =>
             LET args == pod[o].args
                 inherited == InheritedPodInfo.logFormatArgs
                                 \o InheritedPodInfo.logLevelArgs
             IN /\ Len(args) = 4 + Len(inherited)
                /\ SubSeq(FlagsOf(args), 1, 4)
                      = <<"--volume-path", "--volume-mode", "--data-upload",
                          "--resource-timeout">>
                /\ SubSeq(args, 5, Len(args)) = inherited
                /\ args[3][2] = o
                /\ args[4][2] = param[o].OperationTimeout
                /\ args[2][2] \in {PersistentVolumeFilesystem, PersistentVolumeBlock}
                /\ args[2][2] = getVolumeModeByAccessMode(param[o].AccessMode).mode
                /\ Exists(pvc[o]) /\ args[2][2] = pvc[o].volumeMode
                /\ args[1][2] = <<"/", UIDOf(o)>>

\* C25 witness: a Hosting Pod for a block-mode exposure.
C25_Witness ==
    /\ Exists(pod["o1"]) /\ param["o1"].AccessMode = AccessModeBlock
    /\ pod["o1"].args[2] = <<"--volume-mode", PersistentVolumeBlock>>
    /\ pod["o1"].args[3] = <<"--data-upload", "o1">>

\* In the log of owner o, every call of operation first on the owner's name
\* comes before every call of operation second on the owner's name.
IssuedBefore(o, first, second) ==
    \A i, j \in 1..Len(calls[o]) :
       (calls[o][i].op = first /\ calls[o][i].target = o
        /\ calls[o][j].op = second /\ calls[o][j].target = o) => i < j

\* C26 (claim before snapshot on teardown): in every run of CleanUp and in
\* every rollback of Expose in which both are deleted, the delete of the
\* Intermediate Claim is issued before the delete of the Derived Snapshot
\* that is its data source, so that no claim is left when the snapshot goes;
\* in CleanUp the delete of the Hosting Pod is issued before the delete of
\* the claim.
C26_ClaimBeforeSnapshot ==
    /\ [](\A o \in owners :
            /\ IssuedBefore(o, "deletePVCIfAny", "deleteVSIfAny")
            /\ IssuedBefore(o, "deletePodIfAny", "deletePVCIfAny")
            /\ (IssuedOp(o, "deleteVSIfAny") /\ Issued(o, "createPVC", "ok"))
                  => IssuedOp(o, "deletePVCIfAny")
            /\ pc[o] \in {"cleanVS", "cleanSourceVS"}
                  => (IssuedOp(o, "deletePodIfAny") /\ IssuedOp(o, "deletePVCIfAny")))
    /\ [][\A o \in owners :
            (Exists(vs[o]) /\ ~Exists(vs'[o])) => ~Exists(pvc[o])]_vars

\* C26 witness: CleanUp removed the pod, then the claim, then the Derived
\* Snapshot of a finished exposure.
C26_Witness ==
    /\ CleanUpReturned("o1")
    /\ Len(calls["o1"]) = 4
    /\ calls["o1"][1] = Call("deletePodIfAny", "o1", "ok")
    /\ calls["o1"][2] = Call("deletePVCIfAny", "o1", "ok")
    /\ calls["o1"][3] = Call("deleteVSIfAny", "o1", "ok")

\* Expose of owner o has returned after the source snapshot delete succeeded
\* and the source content delete failed.
SourceWindow(o) ==
    /\ ExposeReturned(o)
    /\ Issued(o, "deleteVS", "ok") /\ Issued(o, "deleteVSC", "error")

\* The effects of the failure window on the source objects: Expose returns
\* the error of the content delete, the Derived Snapshot is deleted, the
\* source snapshot is not restored, the source content is left with deletion
\* policy Retain; and when the source snapshot delete fails the content
\* delete is not issued.
SourceWindowEffects(o) ==
    /\ SourceWindow(o) =>
          /\ last[o].err = ExposeErrorOf("deleteVSC")
          /\ IssuedOp(o, "deleteVSIfAny") /\ ~Exists(vs[o])
          /\ ~Exists(pvc[o]) /\ ~Exists(pod[o])
          /\ ~Exists(vs[SnapshotNameOf(o)])
          /\ Exists(vsc[ContentNameOf(o)])
          /\ vsc[ContentNameOf(o)].policy = VolumeSnapshotContentRetain
    /\ (ExposeReturned(o) /\ Issued(o, "deleteVS", "error")) =>
          /\ last[o].err = ExposeErrorOf("deleteVS")
          /\ ~IssuedOp(o, "deleteVSC")
          /\ Exists(vsc[ContentNameOf(o)])

CreateUndoneBy(op) ==
    CASE op = "deleteVSIfAny" -> "createVS"
      [] op = "deletePVCIfAny" -> "createPVC"
      [] op = "deletePodIfAny" -> "createPod"

\* C28 (rollback touches only own objects): a compensating delete in Expose
\* is issued only for an object that the same Expose call created
\* successfully, and a step of Expose removes a Derived Snapshot,
\* Intermediate Claim or Hosting Pod from the store only if the same call
\* created it; so a second Expose for an owner whose Derived Snapshot exists
\* fails at the derived-snapshot create and deletes none of the Derived
\* Snapshot, Intermediate Claim and Hosting Pod of the first exposure.
C28_RollbackOwnObjects ==
    /\ [](\A o \in owners :
            InExposeLog(o) =>
               \A i \in 1..Len(calls[o]) :
                  calls[o][i].op \in CompensationOps
                     => /\ calls[o][i].target = o
                        /\ \E j \in 1..(i - 1) :
                              /\ calls[o][j].op = CreateUndoneBy(calls[o][i].op)
                              /\ calls[o][j].target = o
                              /\ calls[o][j].outcome = "ok")
    /\ [][\A o \in owners :
            (StepOf(o) /\ InExposeLog(o)') =>
               /\ (Exists(vs[o]) /\ vs'[o] # vs[o]) => Issued(o, "createVS", "ok")'
               /\ (Exists(pvc[o]) /\ pvc'[o] # pvc[o]) => Issued(o, "createPVC", "ok")'
               /\ (Exists(pod[o]) /\ pod'[o] # pod[o]) => Issued(o, "createPod", "ok")'
               /\ (pc[o] = "createVS" /\ Exists(vs[o]))
                     => /\ pc'[o] = "idle" /\ last'[o].err # NilErr
                        /\ <<vs, vsc, pvc, pod>>' = <<vs, vsc, pvc, pod>>]_vars

\* C28 witness: a second Expose for an exposed owner failed at the
\* derived-snapshot create, and the objects of the first exposure are there.
C28_Witness ==
    /\ ExposeReturned("o1") /\ ncalls["o1"] = 2
    /\ last["o1"].err = ExposeErrorOf("createVS")
    /\ Len(calls["o1"]) = 3
    /\ Exists(vs["o1"]) /\ Exists(pvc["o1"]) /\ Exists(pod["o1"])

\* The requested access mode of o's call is neither of the two supported ones.
UnsupportedAccessMode(o) ==
    param[o].AccessMode \notin {AccessModeFileSystem, AccessModeBlock}

ReadOps ==
    {"getPod", "getPVC", "getVS", "getPV", "getBoundVSC", "isRunningInNode",
     "waitPVCBound"}

LookupOps == {"GetExposed", "PeekExposed", "DiagnoseExpose"}

\* The positions of a running lookup.
LookupPositions ==
    {"waitBound", "diagGetPVC", "diagGetVS", "diagPod", "diagPVC", "diagVS"}

\* The log of o is the one of a lookup, running or returned.
InLookupLog(o) ==
    \/ pc[o] \in LookupPositions
    \/ pc[o] = "idle" /\ ncalls[o] > 0 /\ last[o].op \in LookupOps

\* This step is one of a lookup of o.
LookupStep(o) ==
    /\ StepOf(o)
    /\ \/ pc'[o] \in LookupPositions
       \/ pc[o] \in LookupPositions
       \/ pc[o] = "idle" /\ pc'[o] = "idle" /\ last'[o].op \in LookupOps

\* C30 (lookups are read-only): GetExposed, PeekExposed and DiagnoseExpose
\* issue only read operations, and for every store state and every outcome of
\* the call each of their steps leaves the objects in the store and their
\* contents as they were.
C30_LookupsReadOnly ==
    /\ [](\A o \in owners :
            InLookupLog(o) =>
               \A i \in 1..Len(calls[o]) : calls[o][i].op \in ReadOps)
    /\ [][\A o \in owners :
            LookupStep(o) => <<vs, vsc, pvc, pod>>' = <<vs, vsc, pvc, pod>>]_vars

\* C30 witness: a DiagnoseExpose over a store that holds an exposure has
\* returned, one of its dependent reads having failed, and the exposure is
\* still there.
C30_Witness ==
    /\ pc["o1"] = "idle" /\ last["o1"].op = "DiagnoseExpose" /\ ncalls["o1"] > 1
    /\ Len(calls["o1"]) > 3
    /\ \E i \in 1..Len(calls["o1"]) : calls["o1"][i].outcome = "error"
    /\ Exists(pod["o1"]) /\ Exists(pvc["o1"]) /\ Exists(vs["o1"])

\* The request carries the backup-name label with value n.
HasBackupNameLabel(item, n) == <<BackupNameLabel, n>> \in item.Labels

\* The stored request is one that NewDeleteBackupRequest(n) built.
BuiltFor(item, n) == [item EXCEPT !.Name = <<>>, !.Phase = ""] = NewDeleteBackupRequest(n)

\* The last List was made with the options for backup n and Invokes handed
\* back the stored list.
ListedFor(n) ==
    /\ listed.outcome \notin {"none", "error"}
    /\ listed.opts = NewDeleteBackupRequestListOptions(n)

\* What the selector of backup n promises about the last List: the items
\* returned are the stored requests labelled n, among them every request
\* built for n and none built for another backup.
SelectsExactly(n) ==
    /\ listed.outcome = "ok"
    /\ listed.items = SelectSeq(listed.store, LAMBDA item : HasBackupNameLabel(item, n))
    /\ \A i \in 1..Len(listed.store) :
          BuiltFor(listed.store[i], n)
             => \E j \in 1..Len(listed.items) : listed.items[j] = listed.store[i]
    /\ \A j \in 1..Len(listed.items) :
          \A m \in BackupNames \ {n} : ~BuiltFor(listed.items[j], m)

\* C31 (delete-request selector): listing delete-backup requests through the
\* fake client with the list options built by
\* NewDeleteBackupRequestListOptions(n) returns exactly the stored requests
\* whose backup-name label equals n, which includes every request built by
\* NewDeleteBackupRequest(n) and excludes every request built by
\* NewDeleteBackupRequest(m) for m different from n.
C31_DeleteRequestSelector ==
    \A n \in BackupNames : ListedFor(n) => SelectsExactly(n)

\* The same for the backup names that are label values: there the selector
\* string parses back to the one requirement it was formatted from.
DeleteRequestSelectorOnLabelValues ==
    \A n \in BackupNames :
       (ListedFor(n) /\ IsValidLabelValue(n)) => SelectsExactly(n)

\* A List for a backup name that is a label value has returned some of the
\* stored requests and left others out.
DeleteRequestSelectorWitness ==
    \E n \in BackupNames :
       /\ ListedFor(n) /\ IsValidLabelValue(n)
       /\ Len(listed.items) > 0 /\ Len(listed.items) < Len(listed.store)
       /\ \E i \in 1..Len(listed.store) :
             listed.store[i].BackupName = n /\ ~HasBackupNameLabel(listed.store[i], n)

====
